---- MODULE Spec2Model ----
(***************************************************************************)
(* A model of server.js of love-from-fans: the upload/gallery/display      *)
(* server with a flag-only trash manifest, a persisted batch selection,    *)
(* the slot layout of GET /api/slots and the path sandbox; and of the      *)
(* pages' scripts: the display overlay, the painter and the stickers.      *)
(*                                                                         *)
(* Strings are sequences of tokens.  A token is one of the characters that *)
(* the code inspects ("/", "\\", ".", "-"), a percent escape ("%2F",       *)
(* "%2E", or "%" for a malformed escape), or a run of ordinary characters  *)
(* ("paint-", "png", "etc").  Paths are POSIX paths (path.sep = "/").      *)
(***************************************************************************)
EXTENDS Integers, Sequences, FiniteSets, TLC

VARIABLES
    pin,            \* the string handed to safeUploadsPath / safePublicPath
    pres,           \* what the call produced: [fn, ok, val]
    uploadDirMade,  \* the uploads directory exists
    disk,           \* the entries below the uploads directory, in creation order
    readdirRev,     \* the file system enumerates a directory newest entry first
    slotFile,       \* slot.json: [exists, slots]
    trash,          \* data/trash.json: the manifest, a sequence of entries
    selection,      \* data/selection.json: <<>> when absent, else <<batchIndex>>
    sessions,       \* the in-memory Map token -> expiresAt
    nextToken,      \* stands for crypto.randomBytes: the next fresh token
    nextTrashId,    \* stands for makeTrashId: the next fresh id
    now,            \* Date.now()
    resp,           \* the last exchange: [op, arg, status, body]
    beforeDelete,   \* history: the image, its file and the listing as they were
                    \* just before the latest delete that made a manifest
                    \* entry, kept until an upload or the restore of another
                    \* entry changes what is listed
    request,        \* the latest request: [cookie, body, received, answers, state, inflight]
    tasks,          \* the handlers suspended at an await, by the order they began
    overlay,        \* the display page: the overlay's elements and the itemEls map
    painter,        \* the painter: the canvas, the history and the pending image loads
    stickers        \* the sticker manager: stickers, selected marks, active id, drag state

pathVars == <<pin, pres>>

serverVars == <<uploadDirMade, disk, readdirRev, slotFile, trash, selection,
                sessions, nextToken, nextTrashId, now, resp, beforeDelete, request>>

pageVars == <<tasks, overlay, painter, stickers>>

vars == <<pin, pres, uploadDirMade, disk, readdirRev, slotFile, trash, selection,
          sessions, nextToken, nextTrashId, now, resp, beforeDelete, request,
          tasks, overlay, painter, stickers>>

\* no handler is suspended and the pages are as they are when just loaded
PagesLoaded ==
    /\ tasks = <<>>
    /\ overlay = [page |-> "list", children |-> <<>>, itemEls |-> <<>>, polled |-> <<>>]
    /\ painter = [canvas |-> <<>>, history |-> << <<>> >>, isDrawing |-> FALSE,
                  hasStroke |-> FALSE, loads |-> <<>>, drawn |-> 0]
    /\ stickers = [map |-> <<>>, activeStickerId |-> <<>>, dragState |-> <<>>,
                   longPressInfo |-> <<>>, longPressTimer |-> <<>>, nextId |-> 1, down |-> {}]

----------------------------------------------------------------------------
(* Bounds of the model *)

\* the longest string, in tokens, handed to the sandbox functions
MaxPathLen == 5

\* uploads accepted after the start
MaxUploads == 1

\* manifest entries created after the start
MaxTrashed == 1

\* successful logins
MaxLogins == 1

\* Date.now() while the requests are served, in milliseconds
StartTime == 100


\* the uploads of a burst, and the milliseconds that pass during it
MaxBurst == 3

MaxTicks == 2

\* sessions created in the runs about sessions
MaxSessions == 2

\* milliseconds by which those runs go past the lifetime of a session
MaxNaps == 1

\* chunks on their way when an upload is destroyed
MaxInFlight == 2

\* the largest persisted selection and the largest number of batches asked about
MaxStored == 8

MaxBatches == 8

\* the highest number a directory name carries at the start (name-1 .. name-MaxTaken)
MaxTaken == 2

----------------------------------------------------------------------------
(* String helpers *)

Str(tok) == <<tok>>

Dot == <<".">>

DotDot == <<".", ".">>

Slash == <<"/">>

StartsWith(s, p) == Len(s) >= Len(p) /\ SubSeq(s, 1, Len(p)) = p

EndsWith(s, p) == Len(s) >= Len(p) /\ SubSeq(s, Len(s) - Len(p) + 1, Len(s)) = p

\* String.prototype.split("/")
RECURSIVE Split(_)
Split(s) ==
    IF \A i \in 1..Len(s) : s[i] # "/"
    THEN <<s>>
    ELSE LET k == CHOOSE i \in 1..Len(s) :
                     s[i] = "/" /\ \A j \in 1..(i - 1) : s[j] # "/"
         IN  <<SubSeq(s, 1, k - 1)>> \o Split(SubSeq(s, k + 1, Len(s)))

\* Array.prototype.join("/")
RECURSIVE Join(_)
Join(segs) ==
    IF segs = <<>> THEN <<>>
    ELSE IF Len(segs) = 1 THEN segs[1]
    ELSE segs[1] \o Slash \o Join(Tail(segs))

----------------------------------------------------------------------------
(* Node's path module (POSIX) and decodeURIComponent, as the sandbox uses *)
(* them                                                                   *)

\* decodeURIComponent: a malformed escape throws URIError
DecodeTok(tok) ==
    IF tok = "%2F" THEN "/"
    ELSE IF tok = "%2E" THEN "."
    ELSE tok

DecodeURIComponent(s) ==
    IF \E i \in 1..Len(s) : s[i] = "%"
    THEN [ok |-> FALSE, val |-> <<>>]
    ELSE [ok |-> TRUE, val |-> [i \in 1..Len(s) |-> DecodeTok(s[i])]]

\* normalizeString of lib/path.js: drops "" and ".", resolves ".."
RECURSIVE NormalizeString(_, _, _)
NormalizeString(segs, res, allowAboveRoot) ==
    IF segs = <<>> THEN res
    ELSE LET s == Head(segs)
             rest == Tail(segs)
         IN  IF s = <<>> \/ s = Dot
             THEN NormalizeString(rest, res, allowAboveRoot)
             ELSE IF s = DotDot
             THEN IF Len(res) > 0 /\ res[Len(res)] # DotDot
                  THEN NormalizeString(rest, SubSeq(res, 1, Len(res) - 1), allowAboveRoot)
                  ELSE IF allowAboveRoot
                  THEN NormalizeString(rest, Append(res, DotDot), allowAboveRoot)
                  ELSE NormalizeString(rest, res, allowAboveRoot)
             ELSE NormalizeString(rest, Append(res, s), allowAboveRoot)

IsAbsolute(p) == Len(p) > 0 /\ p[1] = "/"

\* path.normalize
Normalize(p) ==
    IF p = <<>> THEN Dot
    ELSE LET abs == IsAbsolute(p)
             trailing == p[Len(p)] = "/"
             body == Join(NormalizeString(Split(p), <<>>, ~abs))
         IN  IF body = <<>>
             THEN IF abs THEN Slash ELSE IF trailing THEN <<".", "/">> ELSE Dot
             ELSE LET b == IF trailing THEN body \o Slash ELSE body
                  IN  IF abs THEN Slash \o b ELSE b

\* path.resolve(base, rel) for an absolute base
Resolve(base, rel) ==
    LET full == IF IsAbsolute(rel) THEN rel
                ELSE IF rel = <<>> THEN base
                ELSE base \o Slash \o rel
    IN  Slash \o Join(NormalizeString(Split(full), <<>>, FALSE))

\* path.relative(from, to) for a `to` that is `from` or below it
Relative(from, to) ==
    IF to = from THEN <<>> ELSE SubSeq(to, Len(from) + 2, Len(to))

----------------------------------------------------------------------------
(* Directories of the server *)

ROOT_DIR == <<"/", "app">>

PUBLIC_DIR == ROOT_DIR \o <<"/", "public">>

DATA_DIR == ROOT_DIR \o <<"/", "data">>

UPLOAD_DIR == ROOT_DIR \o <<"/", "uploads">>

----------------------------------------------------------------------------
(* Path sandboxing *)

\* .replace(/^(\.\.(\/|\\|$))+/, "")
RECURSIVE StripLeadingDotDot(_)
StripLeadingDotDot(s) ==
    IF StartsWith(s, DotDot) /\ (Len(s) = 2 \/ s[3] = "/" \/ s[3] = "\\")
    THEN IF Len(s) = 2 THEN <<>> ELSE StripLeadingDotDot(SubSeq(s, 4, Len(s)))
    ELSE s

\* .replace(/^[/\\]+/, "")
RECURSIVE StripLeadingSeps(_)
StripLeadingSeps(s) ==
    IF Len(s) > 0 /\ (s[1] = "/" \/ s[1] = "\\")
    THEN StripLeadingSeps(Tail(s))
    ELSE s

Thrown == [ok |-> FALSE, val |-> <<>>]

Returned(v) == [ok |-> TRUE, val |-> v]

\* the containment test of both sandbox functions
EscapesDir(resolved, dir) == resolved # dir /\ ~StartsWith(resolved, dir \o Slash)

SafeUploadsPath_NoStrip(urlPath) ==
    LET decoded == DecodeURIComponent(urlPath)
        normalized == Normalize(decoded.val)
        resolved == Resolve(UPLOAD_DIR, normalized)
    IN  IF ~decoded.ok THEN Thrown
        ELSE IF IsAbsolute(normalized) THEN Thrown
        ELSE IF EscapesDir(resolved, UPLOAD_DIR) THEN Thrown
        ELSE Returned(resolved)

SafeUploadsPath(urlPath) ==
    LET decoded == DecodeURIComponent(urlPath)
        normalized == StripLeadingDotDot(Normalize(decoded.val))
        resolved == Resolve(UPLOAD_DIR, normalized)
    IN  IF ~decoded.ok THEN Thrown
        ELSE IF IsAbsolute(normalized) THEN Thrown
        ELSE IF EscapesDir(resolved, UPLOAD_DIR) THEN Thrown
        ELSE Returned(resolved)

SafePublicPath_NoCheck(urlPath) ==
    LET decoded == DecodeURIComponent(urlPath)
        normalized == StripLeadingDotDot(Normalize(decoded.val))
        relative == StripLeadingSeps(normalized)
        resolved == Resolve(PUBLIC_DIR, relative)
    IN  IF ~decoded.ok THEN Thrown
        ELSE Returned(resolved)

SafePublicPath(urlPath) ==
    LET decoded == DecodeURIComponent(urlPath)
        normalized == StripLeadingDotDot(Normalize(decoded.val))
        relative == StripLeadingSeps(normalized)
        resolved == Resolve(PUBLIC_DIR, relative)
    IN  IF ~decoded.ok THEN Thrown
        ELSE IF EscapesDir(resolved, PUBLIC_DIR) THEN Thrown
        ELSE Returned(resolved)

----------------------------------------------------------------------------
(* Constants of server.js *)

OVERLAY_LEFT == 1152

OVERLAY_WIDTH == 3576

PADDING_TOP == 100

PADDING_LEFT == 100

PADDING_RIGHT == 100

GAP == 50

COLUMNS == 6

SLOT_COUNT == 24

DEFAULT_IMAGE_WIDTH == 600

DEFAULT_IMAGE_HEIGHT == 400

KST_OFFSET_MS == 9 * 60 * 60 * 1000

SESSION_TTL_MS == 12 * 60 * 60 * 1000

MAX_BODY_SIZE == 10 * 1024 * 1024

----------------------------------------------------------------------------
(* Optional values (null, undefined, NaN: <<>>) and exact fractions *)

None == <<>>

Some(v) == <<v>>

IsSome(o) == Len(o) = 1

\* a fraction <<n, d>> with d > 0 stands for the double n / d
Frac(n, d) == <<n, d>>

FracOfInt(n) == <<n, 1>>

FracAdd(a, b) == <<a[1] * b[2] + b[1] * a[2], a[2] * b[2]>>

FracMul(a, b) == <<a[1] * b[1], a[2] * b[2]>>

FracDiv(a, b) == <<a[1] * b[2], a[2] * b[1]>>

\* a rounding that drops the fraction
MathRound_Floor(a) == a[1] \div a[2]

\* Math.round: the nearest integer, a half going up
MathRound(a) == (2 * a[1] + a[2]) \div (2 * a[2])

\* Math.ceil(n / d) for naturals
CeilDiv(n, d) == (n + d - 1) \div d

\* the positions of keys in ascending key order, equal keys keeping their
\* order: the permutation a stable Array.prototype.sort applies
RECURSIVE IndicesByKey(_, _)
IndicesByKey(keys, left) ==
    IF left = {} THEN <<>>
    ELSE LET m == CHOOSE t \in left : \A u \in left : t <= u
         IN  SelectSeq([i \in 1..Len(keys) |-> i], LAMBDA i : keys[i] = m)
                 \o IndicesByKey(keys, left \ {m})

StableOrder(keys) == IndicesByKey(keys, {keys[i] : i \in 1..Len(keys)})

Reverse(s) == [i \in 1..Len(s) |-> s[Len(s) + 1 - i]]

----------------------------------------------------------------------------
(* The file system below UPLOAD_DIR.  An entry of disk is                  *)
(* [dir, name, kind, mtime, data]: dir is <<>> for the uploads directory   *)
(* itself or the name of a subdirectory of it, kind is "file" or "dir",    *)
(* data is the content of a file, of which the model keeps the 24 header   *)
(* bytes getPngSize reads: [sigHi, sigLo, width, height].                  *)

DotPng == <<".", "png">>

FileEntry(dir, name, mtime, data) ==
    [dir |-> dir, name |-> name, kind |-> "file", mtime |-> mtime, data |-> data]

NoData == [sigHi |-> FALSE, sigLo |-> FALSE, width |-> 0, height |-> 0]

DirEntry(name, mtime) ==
    [dir |-> <<>>, name |-> name, kind |-> "dir", mtime |-> mtime, data |-> NoData]

PngData(w, h) == [sigHi |-> TRUE, sigLo |-> TRUE, width |-> w, height |-> h]

\* the relative path of an entry, with "/" between directory and name
RelPathOf(e) == IF e.dir = <<>> THEN e.name ELSE e.dir \o Slash \o e.name

\* fsp.readdir(dir, {withFileTypes: true})
ReadDir(dir) ==
    LET es == SelectSeq(disk, LAMBDA e : e.dir = dir)
    IN  IF readdirRev THEN Reverse(es) ELSE es

EntriesAt(dir, name) == {i \in 1..Len(disk) : disk[i].dir = dir /\ disk[i].name = name}

KindAt(dir, name) ==
    IF EntriesAt(dir, name) = {} THEN "none"
    ELSE disk[CHOOSE i \in EntriesAt(dir, name) : TRUE].kind

\* fsp.access / fsp.stat / fsp.open on a resolved path that is UPLOAD_DIR or
\* below it: "ok", or the code of the error
Access(resolved) ==
    LET segs == Split(Relative(UPLOAD_DIR, resolved))
    IN  IF ~uploadDirMade THEN "ENOENT"
        ELSE IF resolved = UPLOAD_DIR THEN "ok"
        ELSE LET top == KindAt(<<>>, segs[1])
             IN  IF top = "none" THEN "ENOENT"
                 ELSE IF Len(segs) = 1 THEN "ok"
                 ELSE IF top = "file" THEN "ENOTDIR"
                 ELSE LET sub == KindAt(segs[1], segs[2])
                      IN  IF sub = "none" THEN "ENOENT"
                          ELSE IF Len(segs) = 2 THEN "ok"
                          ELSE "ENOTDIR"

\* path.basename of a relative path without a trailing slash
Basename(p) == LET segs == Split(p) IN segs[Len(segs)]

\* path.extname: from the last "." of the basename, unless that "." leads it
Extname(name) ==
    LET b == Basename(name)
        dots == {i \in 2..Len(b) : b[i] = "."}
    IN  IF dots = {} THEN <<>>
        ELSE SubSeq(b, CHOOSE i \in dots : \A j \in dots : j <= i, Len(b))

\* String.prototype.slice(0, -n): slice(0, -0) is slice(0, 0)
SliceOffEnd(s, n) == IF n = 0 THEN <<>> ELSE SubSeq(s, 1, Len(s) - n)

\* formatKstTimestamp: the instant shifted to UTC+9, written out in digits
formatKstTimestamp(ms) == <<ToString(ms + KST_OFFSET_MS)>>

\* a probe that takes the first numbered name without looking whether it exists
ProbeFrom_Once(dirPath, base, ext, candidate, counter) ==
    IF Access(dirPath \o Slash \o candidate) = "ENOENT"
    THEN candidate
    ELSE base \o <<"-", ToString(counter)>> \o ext

\* uniqueFilename: probes baseName, base-1ext, base-2ext, ... with fsp.access
RECURSIVE ProbeFrom(_, _, _, _, _)
ProbeFrom(dirPath, base, ext, candidate, counter) ==
    IF Access(dirPath \o Slash \o candidate) = "ENOENT"
    THEN candidate
    ELSE ProbeFrom(dirPath, base, ext, base \o <<"-", ToString(counter)>> \o ext, counter + 1)

uniqueFilename(baseName, dirPath) ==
    LET ext == Extname(baseName)
        base == SliceOffEnd(baseName, Len(ext))
    IN  ProbeFrom(dirPath, base, ext, baseName, 1)

\* isBatchDirName: /^batch-\d{4}$/
FourDigits == {"0001", "0002", "0003"}

isBatchDirName(name) == Len(name) = 2 /\ name[1] = "batch-" /\ name[2] \in FourDigits

\* a header reader that always fails
getPngSize_Never(data) == None

\* getPngSize: only the first four signature bytes are compared
getPngSize(data) ==
    IF ~data.sigHi THEN None
    ELSE IF data.width = 0 \/ data.height = 0 THEN None
    ELSE Some([width |-> data.width, height |-> data.height])

----------------------------------------------------------------------------
(* The trash manifest and the persisted selection *)

\* makeTrashId and the entry markAsTrashed builds
TrashEntry(id, normalized, at) ==
    [id |-> id, filename |-> Basename(normalized), path |-> normalized, trashedAt |-> at]

\* markAsTrashed after its fsp.access succeeded: [entry, list]
markAsTrashed_Duplicating(list, normalized, id, at) ==
    LET entry == TrashEntry(id, normalized, at)
    IN  [entry |-> entry, list |-> <<entry>> \o list]

markAsTrashed_NotRecorded(list, normalized, id, at) ==
    [entry |-> TrashEntry(id, normalized, at), list |-> list]

\* a marking that never looks for an entry of the path and adds one at the end
markAsTrashed_Appending(list, normalized, id, at) ==
    LET entry == TrashEntry(id, normalized, at)
    IN  [entry |-> entry, list |-> Append(list, entry)]

markAsTrashed(list, normalized, id, at) ==
    LET found == {i \in 1..Len(list) : list[i].path = normalized}
        entry == TrashEntry(id, normalized, at)
    IN  IF found # {}
        THEN [entry |-> list[CHOOSE i \in found : \A j \in found : i <= j], list |-> list]
        ELSE [entry |-> entry, list |-> <<entry>> \o list]

\* restoreTrashEntry: [found, entry, list]
restoreTrashEntry_KeepsEntry(list, id) ==
    LET found == {i \in 1..Len(list) : list[i].id = id}
    IN  IF found = {} THEN [found |-> FALSE, entry |-> None, list |-> list]
        ELSE LET idx == CHOOSE i \in found : \A j \in found : i <= j
             IN  [found |-> TRUE, entry |-> Some(list[idx]), list |-> list]

restoreTrashEntry_DropsHead(list, id) ==
    LET found == {i \in 1..Len(list) : list[i].id = id}
    IN  IF found = {} THEN [found |-> FALSE, entry |-> None, list |-> list]
        ELSE LET idx == CHOOSE i \in found : \A j \in found : i <= j
             IN  [found |-> TRUE, entry |-> Some(list[idx]), list |-> Tail(list)]

restoreTrashEntry(list, id) ==
    LET found == {i \in 1..Len(list) : list[i].id = id}
    IN  IF found = {} THEN [found |-> FALSE, entry |-> None, list |-> list]
        ELSE LET idx == CHOOSE i \in found : \A j \in found : i <= j
             IN  [found |-> TRUE,
                  entry |-> Some(list[idx]),
                  list |-> SubSeq(list, 1, idx - 1) \o SubSeq(list, idx + 1, Len(list))]

\* getTrashSet
getTrashSet(list) == {list[i].path : i \in 1..Len(list)}

\* a resolution that lets a selection past the last batch through
resolveBatchIndex_NoClamp(index, total) ==
    IF total <= 0 THEN None
    ELSE IF ~IsSome(index) THEN Some(0)
    ELSE IF index[1] < 0 THEN Some(0)
    ELSE index

\* resolveBatchIndex(index, total): None is null
resolveBatchIndex(index, total) ==
    IF total <= 0 THEN None
    ELSE IF ~IsSome(index) THEN Some(0)
    ELSE IF index[1] < 0 THEN Some(0)
    ELSE IF index[1] >= total THEN Some(total - 1)
    ELSE index

\* a lookup that hands the persisted selection on as it is stored
getSelectedBatchIndex_AsStored(total) ==
    IF total <= 0 THEN None ELSE IF IsSome(selection) THEN selection ELSE Some(0)

\* getSelectedBatchIndex: readSelection, then resolveBatchIndex
getSelectedBatchIndex(total) == resolveBatchIndex(selection, total)

----------------------------------------------------------------------------
(* The Ordered-Image Index *)

IsPngFile(e) == e.kind = "file" /\ EndsWith(e.name, DotPng)

\* the files getOrderedImages pushes for one entry of the uploads directory
FilesOfEntry(e) ==
    (IF IsPngFile(e) THEN <<e>> ELSE <<>>)
        \o (IF e.kind = "dir" /\ isBatchDirName(e.name)
            THEN SelectSeq(ReadDir(e.name), IsPngFile)
            ELSE <<>>)

RECURSIVE CollectFiles(_)
CollectFiles(entries) ==
    IF entries = <<>> THEN <<>>
    ELSE FilesOfEntry(Head(entries)) \o CollectFiles(Tail(entries))

\* the image files as the directory enumerates them, without the sort
getOrderedImages_Unsorted == CollectFiles(ReadDir(<<>>))

\* getOrderedImages: the entries of the image files, oldest first
getOrderedImages ==
    LET files == CollectFiles(ReadDir(<<>>))
        order == StableOrder([i \in 1..Len(files) |-> files[i].mtime])
    IN  [i \in 1..Len(files) |-> files[order[i]]]

UrlOf(relPath) == <<"/", "uploads", "/">> \o relPath

ListItem(relPath) ==
    [filename |-> Basename(relPath), path |-> relPath, url |-> UrlOf(relPath)]

\* the filter of listImages and listSlots over the ordered entries
VisibleOf_NoFilter(ordered, list) == ordered

VisibleOf(ordered, list) ==
    SelectSeq(ordered, LAMBDA e : RelPathOf(e) \notin getTrashSet(list))

\* listImages
listImages ==
    LET visible == VisibleOf(getOrderedImages, trash)
    IN  [i \in 1..Len(visible) |-> ListItem(RelPathOf(visible[i]))]

\* listTrash: the entries that have a path and whose file fsp.access finds
TrashItem(entry) ==
    [id |-> entry.id, filename |-> entry.filename, path |-> entry.path,
     trashedAt |-> entry.trashedAt, url |-> UrlOf(entry.path)]

TrashEntryShown_All(entry) == TRUE

TrashEntryShown(entry) ==
    /\ entry.path # <<>>
    /\ SafeUploadsPath(entry.path).ok
    /\ Access(SafeUploadsPath(entry.path).val) = "ok"

listTrash ==
    LET shown == SelectSeq(trash, TrashEntryShown)
    IN  [i \in 1..Len(shown) |-> TrashItem(shown[i])]

\* chunkArray
\* chunks that are not cut off at their end
chunkArray_Uncut(items, size) ==
    [b \in 1..CeilDiv(Len(items), size) |-> SubSeq(items, (b - 1) * size + 1, Len(items))]

chunkArray(items, size) ==
    [b \in 1..CeilDiv(Len(items), size) |->
        SubSeq(items, (b - 1) * size + 1, IF b * size < Len(items) THEN b * size ELSE Len(items))]

\* listBatches
listBatches ==
    LET chunks == chunkArray(listImages, SLOT_COUNT)
        selectedIndex == getSelectedBatchIndex(Len(chunks))
    IN  [batchSize |-> SLOT_COUNT,
         selectedIndex |-> selectedIndex,
         batches |-> [b \in 1..Len(chunks) |->
                        [index |-> b - 1,
                         count |-> Len(chunks[b]),
                         items |-> chunks[b],
                         isSelected |-> selectedIndex = Some(b - 1)]]]


----------------------------------------------------------------------------
(* JSON values and their coercion to numbers *)

\* A JSON value as JSON.parse yields it: [kind, num, text, elems].  kind is
\* "absent" (the property is not there: undefined), "number" (num is its
\* value), "overflow" (a literal such as 1e999, parsed to Infinity), "null",
\* "string" (text), "boolean" (text is "true" or "false"), "array" (elems) or
\* "object"
JsonValue(kind, num, text, elems) == [kind |-> kind, num |-> num, text |-> text, elems |-> elems]

JsonAbsent == JsonValue("absent", FracOfInt(0), "", <<>>)

JsonNumber(n, d) == JsonValue("number", Frac(n, d), "", <<>>)

JsonOverflow == JsonValue("overflow", FracOfInt(0), "", <<>>)

JsonNull == JsonValue("null", FracOfInt(0), "", <<>>)

JsonString(text) == JsonValue("string", FracOfInt(0), text, <<>>)

JsonBoolean(b) == JsonValue("boolean", FracOfInt(0), IF b THEN "true" ELSE "false", <<>>)

JsonArrayOf(elems) == JsonValue("array", FracOfInt(0), "", elems)

JsonObject == JsonValue("object", FracOfInt(0), "", <<>>)

\* Number(string) when the result is finite: the empty string is 0, a numeric
\* literal its value, any other text NaN (None)
StringToNumber(text) ==
    IF text = "" THEN Some(FracOfInt(0))
    ELSE IF text = "1" THEN Some(FracOfInt(1))
    ELSE IF text = "-1" THEN Some(FracOfInt(-1))
    ELSE IF text = "1.5" THEN Some(Frac(3, 2))
    ELSE None

\* String(array element) as Array.prototype.join writes it, then Number
ElementToNumber(e) ==
    IF e.kind = "number" THEN Some(e.num)
    ELSE IF e.kind = "null" THEN Some(FracOfInt(0))
    ELSE IF e.kind = "string" THEN StringToNumber(e.text)
    ELSE None

\* Number(v) when the result is finite (Number.isFinite), None when it is NaN
\* or an infinity
NumberOf(v) ==
    IF v.kind = "number" THEN Some(v.num)
    ELSE IF v.kind = "null" THEN Some(FracOfInt(0))
    ELSE IF v.kind = "boolean" THEN Some(FracOfInt(IF v.text = "true" THEN 1 ELSE 0))
    ELSE IF v.kind = "string" THEN StringToNumber(v.text)
    ELSE IF v.kind = "array"
    THEN IF v.elems = <<>> THEN Some(FracOfInt(0))
         ELSE IF Len(v.elems) = 1 THEN ElementToNumber(v.elems[1])
         ELSE None
    ELSE None

\* Math.floor
MathFloor(a) == a[1] \div a[2]


----------------------------------------------------------------------------
(* slot.json and the slot layout *)

\* a slot definition as written in slot.json: row and col are JSON values
\* (whole when they are numbers); of slot, x, y, w and h an absent field is
\* None and an explicit x, y, w or h is a fraction
RawSlot(slot, row, col, x, y, w, h, disabled, enabled) ==
    [slot |-> slot, row |-> row, col |-> col, x |-> x, y |-> y, w |-> w, h |-> h,
     disabled |-> disabled, enabled |-> enabled]

\* Number(slot?.row) kept when Number.isFinite, else null
RowOrCol(v) == IF IsSome(NumberOf(v)) THEN Some(MathFloor(NumberOf(v)[1])) ELSE None

\* the object readSlotDefinitions builds for the index-th definition
ParsedSlot(raw, index) ==
    [slot |-> IF IsSome(raw.slot) THEN raw.slot[1] ELSE index,
     row |-> RowOrCol(raw.row), col |-> RowOrCol(raw.col),
     x |-> raw.x, y |-> raw.y, w |-> raw.w, h |-> raw.h,
     disabled |-> (raw.disabled \/ ~raw.enabled)]

\* a reading that lets an enabled definition without row or col through
readSlotDefinitions_Unchecked ==
    LET raws == slotFile.slots
        parsed == [i \in 1..Len(raws) |-> ParsedSlot(raws[i], i)]
        order == StableOrder([i \in 1..Len(parsed) |-> parsed[i].slot])
    IN  IF ~slotFile.exists THEN [ok |-> FALSE, slots |-> <<>>]
        ELSE IF Len(raws) < SLOT_COUNT THEN [ok |-> FALSE, slots |-> <<>>]
        ELSE [ok |-> TRUE, slots |-> [i \in 1..Len(parsed) |-> parsed[order[i]]]]

\* readSlotDefinitions: [ok, slots], ok = FALSE when it throws
readSlotDefinitions ==
    LET raws == slotFile.slots
        parsed == [i \in 1..Len(raws) |-> ParsedSlot(raws[i], i)]
        order == StableOrder([i \in 1..Len(parsed) |-> parsed[i].slot])
    IN  IF ~slotFile.exists THEN [ok |-> FALSE, slots |-> <<>>]
        ELSE IF Len(raws) < SLOT_COUNT THEN [ok |-> FALSE, slots |-> <<>>]
        ELSE IF \E i \in 1..Len(parsed) :
                    ~parsed[i].disabled /\ (~IsSome(parsed[i].row) \/ ~IsSome(parsed[i].col))
        THEN [ok |-> FALSE, slots |-> <<>>]
        ELSE [ok |-> TRUE, slots |-> [i \in 1..Len(parsed) |-> parsed[order[i]]]]

\* a cell width of 554
cellWidth_Rounded == FracOfInt(554)

cellWidth ==
    Frac(OVERLAY_WIDTH - PADDING_LEFT - PADDING_RIGHT - GAP * (COLUMNS - 1), COLUMNS)

cellHeight ==
    FracDiv(FracMul(cellWidth, FracOfInt(DEFAULT_IMAGE_HEIGHT)), FracOfInt(DEFAULT_IMAGE_WIDTH))

leftOrigin == OVERLAY_LEFT + PADDING_LEFT

\* the item listSlots builds for one slot and the image entry put in it
SlotItem(slot, e) ==
    LET relPath == RelPathOf(e)
        width == IF IsSome(slot.w) THEN slot.w[1] ELSE cellWidth
        size == getPngSize(e.data)
        height == IF IsSome(size)
                  THEN FracDiv(FracMul(width, FracOfInt(size[1].height)), FracOfInt(size[1].width))
                  ELSE IF IsSome(slot.h) THEN slot.h[1] ELSE cellHeight
        x == IF IsSome(slot.x) THEN slot.x[1]
             ELSE FracAdd(FracOfInt(leftOrigin),
                          FracMul(FracOfInt(slot.col[1]), FracAdd(cellWidth, FracOfInt(GAP))))
        y == IF IsSome(slot.y) THEN slot.y[1]
             ELSE FracAdd(FracOfInt(PADDING_TOP),
                          FracMul(FracOfInt(slot.row[1]), FracAdd(cellHeight, FracOfInt(GAP))))
    IN  [filename |-> Basename(relPath),
         row |-> slot.row[1],
         col |-> slot.col[1],
         x |-> MathRound(x),
         y |-> MathRound(y),
         w |-> MathRound(width),
         h |-> MathRound(height),
         updatedAt |-> IF e.mtime # 0 THEN e.mtime ELSE now,
         url |-> UrlOf(relPath)]

\* the zip of listSlots: which slot takes which image
SlotFor_Shifted(visibleSlots, index) == visibleSlots[IF index < Len(visibleSlots) THEN index + 1 ELSE 1]

SlotFor(visibleSlots, index) == visibleSlots[index]

\* listSlots: [ok, items], ok = FALSE when it throws
listSlots ==
    LET slotDefs == readSlotDefinitions
        activeSlots == SelectSeq(slotDefs.slots,
                                 LAMBDA s : ~s.disabled /\ IsSome(s.row) /\ IsSome(s.col))
        visibleSlots == SubSeq(activeSlots, 1, SLOT_COUNT)
        visibleImages == VisibleOf(getOrderedImages, trash)
        totalBatches == CeilDiv(Len(visibleImages), SLOT_COUNT)
        selectedIndex == getSelectedBatchIndex(totalBatches)
        start == selectedIndex[1] * SLOT_COUNT
        last == IF start + SLOT_COUNT < Len(visibleImages)
                THEN start + SLOT_COUNT ELSE Len(visibleImages)
        batchImages == SubSeq(visibleImages, start + 1, last)
        count == IF Len(visibleSlots) < Len(batchImages)
                 THEN Len(visibleSlots) ELSE Len(batchImages)
    IN  IF ~slotDefs.ok THEN [ok |-> FALSE, items |-> <<>>]
        ELSE IF Len(activeSlots) < SLOT_COUNT THEN [ok |-> FALSE, items |-> <<>>]
        ELSE IF ~IsSome(selectedIndex) THEN [ok |-> TRUE, items |-> <<>>]
        ELSE [ok |-> TRUE,
              items |-> [i \in 1..count |-> SlotItem(SlotFor(visibleSlots, i), batchImages[i])]]

----------------------------------------------------------------------------
(* Sessions *)

\* a lookup that takes any cookie for a session
HasSession_AnyToken(cookie) == cookie # 0

\* a lookup that never lets a session expire
HasSession_NeverExpires(cookie) ==
    /\ cookie # 0
    /\ cookie \in DOMAIN sessions

\* getSessionToken finds a live session for the cookie (0: no cookie)
HasSession(cookie) ==
    /\ cookie # 0
    /\ cookie \in DOMAIN sessions
    /\ now <= sessions[cookie]

\* the Map after getSessionToken: an expired token is deleted
SessionsAfterLookup(cookie) ==
    IF cookie # 0 /\ cookie \in DOMAIN sessions /\ now > sessions[cookie]
    THEN [t \in (DOMAIN sessions) \ {cookie} |-> sessions[t]]
    ELSE sessions

\* createSession
createSession(token) ==
    [t \in (DOMAIN sessions) \cup {token} |->
        IF t = token THEN now + SESSION_TTL_MS ELSE sessions[t]]

\* an exchange: the operation, what the request named ([path] for the target
\* of a delete, [id] for a restore, [password] for a login; None elsewhere),
\* the status (0: no response was sent), and the body
\* sent when it is JSON: an object as a record, an array by JsonArray
RespTo(op, arg, status, body) == [op |-> op, arg |-> arg, status |-> status, body |-> body]

JsonArray(items) == [array |-> items]

Resp(op, status, body) == RespTo(op, None, status, body)

\* A request as the server saw it: the token of its session cookie (0: no
\* cookie), what became of its body ("none": it has none, "unread": the
\* handler answered before reading it, "json": it parsed, "badjson": it did
\* not, "toolarge": it grew past MAX_BODY_SIZE), and for an upload received
\* chunk by chunk the characters received so far, the responses sent,
\* whether the request is still "open", "destroyed" or "done", and the chunks
\* that were on their way when it was destroyed
Request(cookie, body) ==
    [cookie |-> cookie, body |-> body, received |-> 0, answers |-> 1, state |-> "done",
     inflight |-> 0]

NoRequest ==
    [cookie |-> 0, body |-> "none", received |-> 0, answers |-> 0, state |-> "done",
     inflight |-> 0]

\* the ways readJsonBody rejects
BodyFaults == {"badjson", "toolarge"}

\* requireAdmin refusing a request
Refuse(op, cookie) ==
    /\ ~HasSession(cookie)
    /\ sessions' = SessionsAfterLookup(cookie)
    /\ resp' = Resp(op, 401, <<>>)

\* the cookies a request may carry: none, an unknown token, any issued token
Cookies == {0, -1} \cup 1..(nextToken - 1)

----------------------------------------------------------------------------
(* Request handlers *)

\* GET /api/list
GetList(cookie) ==
    /\ \/ Refuse("list", cookie) /\ UNCHANGED uploadDirMade
       \/ /\ HasSession(cookie)
          /\ resp' = Resp("list", 200, JsonArray(listImages))
          /\ uploadDirMade' = TRUE
          /\ UNCHANGED sessions
    /\ request' = Request(cookie, "none")
    /\ UNCHANGED <<pageVars, pin, pres, beforeDelete, disk, readdirRev, slotFile, trash, selection,
                   nextToken, nextTrashId, now>>

\* GET /api/folders
GetFolders(cookie) ==
    /\ \/ Refuse("folders", cookie)
       \/ /\ HasSession(cookie)
          /\ resp' = Resp("folders", 200, JsonArray(<<>>))
          /\ UNCHANGED sessions
    /\ request' = Request(cookie, "none")
    /\ UNCHANGED <<pageVars, pin, pres, beforeDelete, uploadDirMade, disk, readdirRev, slotFile, trash, selection,
                   nextToken, nextTrashId, now>>

\* GET /api/trash
GetTrash(cookie) ==
    /\ \/ Refuse("trash", cookie)
       \/ /\ HasSession(cookie)
          /\ resp' = Resp("trash", 200, JsonArray(listTrash))
          /\ UNCHANGED sessions
    /\ request' = Request(cookie, "none")
    /\ UNCHANGED <<pageVars, pin, pres, beforeDelete, uploadDirMade, disk, readdirRev, slotFile, trash, selection,
                   nextToken, nextTrashId, now>>

\* GET /api/batches
GetBatches(cookie) ==
    /\ \/ Refuse("batches", cookie) /\ UNCHANGED uploadDirMade
       \/ /\ HasSession(cookie)
          /\ resp' = Resp("batches", 200, listBatches)
          /\ uploadDirMade' = TRUE
          /\ UNCHANGED sessions
    /\ request' = Request(cookie, "none")
    /\ UNCHANGED <<pageVars, pin, pres, beforeDelete, disk, readdirRev, slotFile, trash, selection,
                   nextToken, nextTrashId, now>>

\* the select route's test of Number(body?.index)
IndexAccepted(index) == IsSome(index) /\ index[1][1] >= 0

\* the bodies of POST /api/batches/select: unparsable, or an object whose
\* index is one of these values
SelectIndexes ==
    {JsonAbsent, JsonNumber(-1, 1), JsonNumber(0, 1), JsonNumber(1, 1), JsonNumber(3, 2),
     JsonOverflow, JsonNull, JsonString("abc"), JsonBoolean(TRUE), JsonArrayOf(<<>>)}

SelectBodies == {[json |-> FALSE, index |-> JsonAbsent]}
                    \cup {[json |-> TRUE, index |-> v] : v \in SelectIndexes}

\* POST /api/batches/select
PostSelect(cookie) ==
    /\ \/ Refuse("select", cookie) /\ request' = Request(cookie, "unread") /\ UNCHANGED selection
       \/ /\ HasSession(cookie)
          /\ UNCHANGED sessions
          /\ \E body \in SelectBodies :
             LET index == NumberOf(body.index)
             IN  IF ~body.json
                 THEN /\ resp' = Resp("select", 500, <<>>)
                      /\ \E fault \in BodyFaults : request' = Request(cookie, fault)
                      /\ UNCHANGED selection
                 ELSE IF ~IndexAccepted(index)
                 THEN /\ resp' = RespTo("select", [index |-> body.index], 400, <<>>)
                      /\ request' = Request(cookie, "json")
                      /\ UNCHANGED selection
                 ELSE /\ selection' = Some(MathFloor(index[1]))
                      /\ request' = Request(cookie, "json")
                      /\ resp' = RespTo("select", [index |-> body.index], 200, [ok |-> TRUE])
    /\ UNCHANGED <<pageVars, pin, pres, beforeDelete, uploadDirMade, disk, readdirRev, slotFile, trash,
                   nextToken, nextTrashId, now>>

\* the bodies of POST /api/restore: unparsable, or {id}; ids are counted from 1
RestoreBodies == {[json |-> FALSE, id |-> None]}
                    \cup {[json |-> TRUE, id |-> i] : i \in {None} \cup {Some(n) : n \in 1..nextTrashId}}

\* POST /api/restore
PostRestore(cookie) ==
    /\ \/ Refuse("restore", cookie) /\ request' = Request(cookie, "unread") /\ UNCHANGED <<trash, beforeDelete>>
       \/ /\ HasSession(cookie)
          /\ UNCHANGED sessions
          /\ \E body \in RestoreBodies :
             IF ~body.json
             THEN /\ resp' = Resp("restore", 500, <<>>)
                  /\ \E fault \in BodyFaults : request' = Request(cookie, fault)
                  /\ UNCHANGED <<trash, beforeDelete>>
             ELSE IF ~IsSome(body.id)
             THEN /\ resp' = Resp("restore", 400, <<>>)
                  /\ request' = Request(cookie, "json")
                  /\ UNCHANGED <<trash, beforeDelete>>
             ELSE LET r == restoreTrashEntry(trash, body.id[1])
                  IN  IF ~r.found
                      THEN /\ resp' = RespTo("restore", [id |-> body.id[1]], 404, <<>>)
                           /\ request' = Request(cookie, "json")
                           /\ UNCHANGED <<trash, beforeDelete>>
                      ELSE /\ trash' = r.list
                           /\ request' = Request(cookie, "json")
                           /\ resp' = RespTo("restore", [id |-> body.id[1]], 200, [path |-> r.entry[1].path])
                           /\ beforeDelete' =
                                 IF IsSome(beforeDelete) /\ beforeDelete[1].id = body.id[1]
                                 THEN beforeDelete ELSE None
    /\ UNCHANGED <<pageVars, pin, pres, uploadDirMade, disk, readdirRev, slotFile, selection,
                   nextToken, nextTrashId, now>>

\* GET /api/slots
GetSlots ==
    /\ LET r == listSlots
       IN  /\ resp' = IF r.ok THEN Resp("slots", 200, JsonArray(r.items)) ELSE Resp("slots", 500, <<>>)
           /\ uploadDirMade' = (uploadDirMade \/ readSlotDefinitions.ok)
    /\ request' = Request(0, "none")
    /\ UNCHANGED <<pageVars, pin, pres, beforeDelete, disk, readdirRev, slotFile, trash, selection,
                   sessions, nextToken, nextTrashId, now>>

\* files written since the server started
Uploaded == {i \in 1..Len(disk) : disk[i].mtime >= StartTime}

\* the body of an upload: json says whether JSON.parse fails ("invalid"),
\* yields null ("null") or yields a value whose properties can be read
\* ("object"); dataUrl is the property of that name, [kind, text], kind being
\* "absent", "null", "number" or "string" and text the string in pieces;
\* data is what the payload decodes to
UploadBody(json, kind, text, data) ==
    [json |-> json, dataUrl |-> [kind |-> kind, text |-> text], data |-> data]

PngDataUrl(payload) == <<"data:image/", "png", ";base64,">> \o payload

\* dataUrl.match(/^data:image\/(png);base64,(.+)$/)
MatchesPngDataUrl(text) ==
    /\ Len(text) >= 4
    /\ SubSeq(text, 1, 3) = <<"data:image/", "png", ";base64,">>

\* the bodies of POST /api/upload: no JSON, null, {}, a dataUrl that is null,
\* a number, empty, a JPEG data URL, a PNG data URL without payload, a PNG
\* data URL after other text, and a PNG data URL
UploadBodies ==
    {UploadBody("invalid", "absent", <<>>, NoData),
     UploadBody("null", "absent", <<>>, NoData),
     UploadBody("object", "absent", <<>>, NoData),
     UploadBody("object", "null", <<>>, NoData),
     UploadBody("object", "number", <<>>, NoData),
     UploadBody("object", "string", <<>>, NoData),
     UploadBody("object", "string", <<"data:image/", "jpeg", ";base64,", "AAAA">>, NoData),
     UploadBody("object", "string", PngDataUrl(<<>>), NoData),
     UploadBody("object", "string", <<"x">> \o PngDataUrl(<<"AAAA">>), NoData),
     UploadBody("object", "string", PngDataUrl(<<"iVBOR">>), PngData(300, 400))}

\* the upload as the exchange names it
UploadArg(body) == [json |-> body.json, dataUrl |-> body.dataUrl]

\* an upload handler that writes into batch-0001
handleUpload_IntoBatch(body, cap) ==
    /\ IF body.json \in {"invalid", "null"}
       THEN /\ resp' = RespTo("upload", UploadArg(body), 500, <<>>)
            /\ UNCHANGED <<disk, beforeDelete>>
       ELSE IF body.dataUrl.kind # "string" \/ ~MatchesPngDataUrl(body.dataUrl.text)
       THEN /\ resp' = RespTo("upload", UploadArg(body), 400, <<>>)
            /\ UNCHANGED <<disk, beforeDelete>>
       ELSE LET filename == <<"paint-">> \o formatKstTimestamp(now) \o DotPng
            IN  IF ~uploadDirMade
                THEN /\ resp' = RespTo("upload", UploadArg(body), 500, <<>>)
                     /\ UNCHANGED <<disk, beforeDelete>>
                ELSE /\ Cardinality(Uploaded) < cap
                     /\ disk' = Append(disk, FileEntry(<<"batch-", "0001">>, filename, now, body.data))
                     /\ resp' = RespTo("upload", UploadArg(body), 200, ListItem(filename))
                     /\ beforeDelete' = None
    /\ UNCHANGED <<pageVars, pin, pres, uploadDirMade, readdirRev, slotFile, trash, selection,
                   sessions, nextToken, nextTrashId, now>>

\* handleUpload once the body has arrived, of which at most cap calls write a
\* file: JSON.parse throws on text that is no JSON and the destructuring
\* throws on null, both into the catch
handleUpload(body, cap) ==
    /\ IF body.json \in {"invalid", "null"}
       THEN /\ resp' = RespTo("upload", UploadArg(body), 500, <<>>)
            /\ UNCHANGED <<disk, beforeDelete>>
       ELSE IF body.dataUrl.kind # "string" \/ body.dataUrl.text = <<>>
       THEN /\ resp' = RespTo("upload", UploadArg(body), 400, <<>>)
            /\ UNCHANGED <<disk, beforeDelete>>
       ELSE IF ~MatchesPngDataUrl(body.dataUrl.text)
       THEN /\ resp' = RespTo("upload", UploadArg(body), 400, <<>>)
            /\ UNCHANGED <<disk, beforeDelete>>
       ELSE LET filename == uniqueFilename(<<"paint-">> \o formatKstTimestamp(now) \o DotPng,
                                           UPLOAD_DIR)
            IN  IF ~uploadDirMade
                THEN /\ resp' = RespTo("upload", UploadArg(body), 500, <<>>)
                     /\ UNCHANGED <<disk, beforeDelete>>
                ELSE /\ Cardinality(Uploaded) < cap
                     /\ disk' = Append(disk, FileEntry(<<>>, filename, now, body.data))
                     /\ resp' = RespTo("upload", UploadArg(body), 200, ListItem(filename))
                     /\ beforeDelete' = None
    /\ UNCHANGED <<pageVars, pin, pres, uploadDirMade, readdirRev, slotFile, trash, selection,
                   sessions, nextToken, nextTrashId, now>>

\* POST /api/upload
PostUpload(body) ==
    /\ handleUpload(body, MaxUploads)
    /\ request' = Request(0, IF body.json = "invalid" THEN "badjson" ELSE "json")

\* ADMIN_PASSWORD, a string of UTF-16 code units
ADMIN_PASSWORD == <<"s", "e", "c", "r", "e", "t">>

\* the bytes Buffer.from writes for one code unit: one for ASCII, two for a
\* letter such as e-acute
Utf8Width(unit) == IF unit = "e-acute" THEN 2 ELSE 1

RECURSIVE ByteLength(_)
ByteLength(text) ==
    IF text = <<>> THEN 0 ELSE Utf8Width(Head(text)) + ByteLength(Tail(text))

\* crypto.timingSafeEqual on the two buffers: "RangeError" when their byte
\* lengths differ, else whether they are equal
timingSafeEqual(a, b) ==
    IF ByteLength(a) # ByteLength(b) THEN "RangeError"
    ELSE IF a = b THEN "true" ELSE "false"

\* the `matches` of handleLogin: the length test short-circuits the comparison
PasswordMatches(password) ==
    IF Len(password) # Len(ADMIN_PASSWORD) THEN "false"
    ELSE timingSafeEqual(password, ADMIN_PASSWORD)

\* the bodies of POST /api/login: unreadable, without a password, and with
\* the right password, a shorter one and one of the same length
LoginBody(json, password) == [json |-> json, password |-> password]

PlainLoginBodies ==
    {LoginBody(FALSE, <<>>), LoginBody(TRUE, <<>>), LoginBody(TRUE, ADMIN_PASSWORD),
     LoginBody(TRUE, <<"g", "u", "e", "s", "s">>),
     LoginBody(TRUE, <<"s", "e", "c", "r", "e", "T">>)}

\* ... and with one as long as ADMIN_PASSWORD in code units but not in bytes
LoginBodies ==
    PlainLoginBodies \cup {LoginBody(TRUE, <<"s", "e-acute", "c", "r", "e", "t">>)}

\* a request the server never answered
Unanswered(cookie, body) ==
    [cookie |-> cookie, body |-> body, received |-> 0, answers |-> 0, state |-> "done",
     inflight |-> 0]

\* handleLogin with ADMIN_PASSWORD configured, of which at most cap calls
\* create a session.  The RangeError of timingSafeEqual is caught nowhere:
\* the request stays unanswered, and the rejected promise either is only
\* reported or ends the process, whose next start has an empty session Map
handleLogin(body, cap) ==
    /\ IF ~body.json
       THEN /\ resp' = Resp("login", 400, <<>>)
            /\ \E fault \in BodyFaults : request' = Request(0, fault)
            /\ UNCHANGED <<sessions, nextToken>>
       ELSE IF PasswordMatches(body.password) = "RangeError"
       THEN /\ resp' = RespTo("login", [password |-> body.password], 0, <<>>)
            /\ request' = Unanswered(0, "json")
            /\ sessions' \in {sessions, <<>>}
            /\ UNCHANGED nextToken
       ELSE IF PasswordMatches(body.password) = "false"
       THEN /\ resp' = RespTo("login", [password |-> body.password], 401, <<>>)
            /\ request' = Request(0, "json")
            /\ UNCHANGED <<sessions, nextToken>>
       ELSE /\ nextToken <= cap
            /\ sessions' = createSession(nextToken)
            /\ nextToken' = nextToken + 1
            /\ resp' = RespTo("login", [password |-> body.password], 200, [ok |-> TRUE])
            /\ request' = Request(0, "json")
    /\ UNCHANGED <<pageVars, pin, pres, beforeDelete, uploadDirMade, disk, readdirRev, slotFile, trash, selection,
                   nextTrashId, now>>

\* POST /api/login
PostLogin(body) == handleLogin(body, MaxLogins)

\* POST /api/logout
PostLogout(cookie) ==
    /\ sessions' = [t \in (DOMAIN sessions) \ {cookie} |-> sessions[t]]
    /\ resp' = Resp("logout", 200, [ok |-> TRUE])
    /\ request' = Request(cookie, "none")
    /\ UNCHANGED <<pageVars, pin, pres, beforeDelete, uploadDirMade, disk, readdirRev, slotFile, trash, selection,
                   nextToken, nextTrashId, now>>

PaintName(tag) == <<"paint-", tag, ".", "png">>

Batch1 == <<"batch-", "0001">>

\* the targets of delete requests: the first and the last image on disk
DeleteGoodTargets ==
    LET images == getOrderedImages
    IN  {RelPathOf(images[i]) : i \in {1, Len(images)} \cap (1..Len(images))}

\* ... and the first one behind "../" and as a directory, and paths that are
\* missing, absolute or undecodable
DeleteTargets ==
    LET images == getOrderedImages
        first == IF images = <<>> THEN PaintName("1") ELSE RelPathOf(images[1])
    IN  DeleteGoodTargets
        \cup {PaintName("none"),
              <<".", ".", "/">> \o first,
              first \o <<"/", "x">>,
              <<"/", "etc", "/", "passwd">>,
              <<"%">>}

\* the requests: DELETE ?path=t, POST with t in the query or in the body, and
\* requests that name nothing
DeleteRequests ==
    {[method |-> "DELETE", query |-> Some(t), json |-> TRUE, body |-> None] : t \in DeleteTargets}
        \cup {[method |-> "POST", query |-> q, json |-> TRUE, body |-> b] :
                 q \in {None, Some(PaintName("none"))}, b \in {Some(t) : t \in DeleteGoodTargets}}
        \cup {[method |-> "POST", query |-> None, json |-> j, body |-> None] : j \in BOOLEAN}
        \cup {[method |-> "DELETE", query |-> None, json |-> TRUE, body |-> None]}

\* the target handleDelete works on: the query's path or filename, else, for
\* a POST, the body's; None when there is none
DeleteTarget(req) ==
    IF IsSome(req.query) THEN req.query
    ELSE IF req.method = "POST" THEN req.body
    ELSE None

\* handleDelete reads the body only of a POST whose query names no target
BodyRead(req) ==
    IF ~IsSome(req.query) /\ req.method = "POST" THEN "json"
    ELSE IF req.method = "POST" THEN "unread"
    ELSE "none"

\* the outcome of handleDelete for a target: [status, path, list]
handleDelete(target, list, id, at) ==
    LET sourcePath == SafeUploadsPath(target)
        found == Access(sourcePath.val)
        normalized == Relative(UPLOAD_DIR, sourcePath.val)
        marked == markAsTrashed(list, normalized, id, at)
    IN  IF ~sourcePath.ok THEN [status |-> 500, path |-> <<>>, list |-> list]
        ELSE IF found = "ENOENT" THEN [status |-> 404, path |-> <<>>, list |-> list]
        ELSE IF found # "ok" THEN [status |-> 500, path |-> <<>>, list |-> list]
        ELSE [status |-> 200, path |-> marked.entry.path, list |-> marked.list]

\* the file at a path relative to the uploads directory, if there is one
FileAt(relPath) ==
    LET found == {i \in 1..Len(disk) : disk[i].kind = "file" /\ RelPathOf(disk[i]) = relPath}
    IN  IF found = {} THEN None ELSE Some(disk[CHOOSE i \in found : TRUE])

\* DELETE|POST /api/delete
Delete(cookie) ==
    /\ \/ Refuse("delete", cookie) /\ request' = Request(cookie, "unread") /\ UNCHANGED <<trash, nextTrashId, beforeDelete>>
       \/ /\ HasSession(cookie)
          /\ UNCHANGED sessions
          /\ \E req \in DeleteRequests :
             IF ~IsSome(req.query) /\ req.method = "POST" /\ ~req.json
             THEN /\ resp' = Resp("delete", 400, <<>>)
                  /\ \E fault \in BodyFaults : request' = Request(cookie, fault)
                  /\ UNCHANGED <<trash, nextTrashId, beforeDelete>>
             ELSE IF ~IsSome(DeleteTarget(req)) \/ DeleteTarget(req)[1] = <<>>
             THEN /\ resp' = Resp("delete", 400, <<>>)
                  /\ request' = Request(cookie, BodyRead(req))
                  /\ UNCHANGED <<trash, nextTrashId, beforeDelete>>
             ELSE LET r == handleDelete(DeleteTarget(req)[1], trash, nextTrashId, now)
                  IN  /\ r.list # trash => nextTrashId <= MaxTrashed + 2
                      /\ request' = Request(cookie, BodyRead(req))
                      /\ trash' = r.list
                      /\ nextTrashId' = IF r.list # trash THEN nextTrashId + 1 ELSE nextTrashId
                      /\ resp' = RespTo("delete", [path |-> DeleteTarget(req)[1]], r.status,
                                        IF r.status = 200 THEN [path |-> r.path] ELSE <<>>)
                      /\ beforeDelete' =
                            IF r.list # trash
                            THEN Some([id |-> nextTrashId, path |-> r.path,
                                       file |-> FileAt(r.path), list |-> listImages])
                            ELSE beforeDelete
    /\ UNCHANGED <<pageVars, pin, pres, uploadDirMade, disk, readdirRev, slotFile, selection,
                   nextToken, now>>

----------------------------------------------------------------------------
(* The sandbox functions applied to bounded inputs *)

PathAlphabet == {"/", "\\", ".", "a", "%2F", "%2E", "%"}

RECURSIVE StringsUpTo(_)
StringsUpTo(n) ==
    IF n = 0 THEN {<<>>}
    ELSE LET shorter == StringsUpTo(n - 1)
         IN  shorter \cup {Append(s, c) : s \in {t \in shorter : Len(t) = n - 1}, c \in PathAlphabet}

EtcPasswd == <<".", ".", "/", ".", ".", "/", "etc", "/", "passwd">>

BatchXPng == <<"batch-", "0001", "/", "x", ".", "png">>

AbsEtcPasswd == <<"/", "etc", "/", "passwd">>

PathInputs == StringsUpTo(MaxPathLen) \cup {EtcPasswd, BatchXPng, AbsEtcPasswd}

NoCall == [fn |-> "none", ok |-> FALSE, val |-> <<>>]

PathInit ==
    /\ pin \in PathInputs
    /\ pres = NoCall
    /\ uploadDirMade = FALSE
    /\ disk = <<>>
    /\ readdirRev = FALSE
    /\ slotFile = [exists |-> FALSE, slots |-> <<>>]
    /\ trash = <<>>
    /\ selection = <<>>
    /\ sessions = <<>>
    /\ nextToken = 1
    /\ nextTrashId = 2
    /\ now = StartTime
    /\ resp = [op |-> "none", arg |-> <<>>, status |-> 0, body |-> <<>>]
    /\ beforeDelete = <<>>
    /\ request = NoRequest
    /\ PagesLoaded

CallSafeUploadsPath ==
    /\ pres.fn = "none"
    /\ LET r == SafeUploadsPath(pin)
       IN  pres' = [fn |-> "uploads", ok |-> r.ok, val |-> r.val]
    /\ UNCHANGED <<pageVars, pin, serverVars>>

CallSafePublicPath ==
    /\ pres.fn = "none"
    /\ LET r == SafePublicPath(pin)
       IN  pres' = [fn |-> "public", ok |-> r.ok, val |-> r.val]
    /\ UNCHANGED <<pageVars, pin, serverVars>>

PathNext == CallSafeUploadsPath \/ CallSafePublicPath

SpecPath == PathInit /\ [][PathNext]_vars

----------------------------------------------------------------------------
(* The states the server starts in *)

\* a stocked uploads directory: 22 images at the top (two of them written in
\* the same millisecond, one with an unreadable header, one taller than
\* wide), two in batch-0001, and entries that are no images
StockedDisk ==
    <<FileEntry(<<>>, <<"notes", ".", "txt">>, 1, NoData),
      DirEntry(Batch1, 1)>>
    \o [i \in 1..22 |->
          FileEntry(<<>>, PaintName(ToString(i)),
                    IF i = 3 THEN 3 ELSE i + 1,
                    IF i = 4 THEN NoData ELSE IF i = 5 THEN PngData(300, 900) ELSE PngData(600, 400))]
    \o <<DirEntry(<<"misc">>, 1),
         DirEntry(<<"album", ".", "png">>, 1),
         FileEntry(<<"misc">>, <<"m", ".", "png">>, 2, PngData(600, 400)),
         FileEntry(Batch1, <<"b1", ".", "png">>, 1, PngData(600, 400)),
         FileEntry(Batch1, <<"b2", ".", "png">>, 13, PngData(400, 400)),
         FileEntry(Batch1, <<"readme", ".", "txt">>, 1, NoData)>>

\* a small uploads directory: three images at the top (two of them written
\* in the same millisecond), one in batch-0001, and entries that are no images
SmallDisk ==
    <<FileEntry(<<>>, <<"notes", ".", "txt">>, 1, NoData),
      DirEntry(Batch1, 1),
      FileEntry(<<>>, PaintName("1"), 2, PngData(600, 400)),
      FileEntry(<<>>, PaintName("2"), 3, NoData),
      FileEntry(<<>>, PaintName("3"), 3, PngData(300, 900)),
      DirEntry(<<"misc">>, 1),
      DirEntry(<<"album", ".", "png">>, 1),
      FileEntry(<<"misc">>, <<"m", ".", "png">>, 2, PngData(600, 400)),
      FileEntry(Batch1, <<"b1", ".", "png">>, 1, PngData(600, 400)),
      FileEntry(Batch1, <<"readme", ".", "txt">>, 1, NoData)>>

\* the uploads directory at start: not yet created, or the small one
InitialDisks == {[made |-> FALSE, disk |-> <<>>],
                 [made |-> TRUE, disk |-> SmallDisk]}

PlainSlot(row, col) == RawSlot(None, JsonNumber(row, 1), JsonNumber(col, 1), None, None, None, None, FALSE, TRUE)

\* 24 slots on the 4 x 6 grid, nothing explicit
GridSlots == [i \in 1..SLOT_COUNT |-> PlainSlot((i - 1) \div COLUMNS, (i - 1) % COLUMNS)]

\* 26 definitions: two switched off, one numbered out of file order, and
\* among the first enabled ones a full explicit rectangle (x 1300.5, y 120.25,
\* w 500.75, h 300), an explicit x below zero (-2.5), an explicit h alone
\* (250) and an explicit w alone (300)
MixedSlots ==
    [i \in 1..(SLOT_COUNT + 2) |->
        IF i = 1 THEN RawSlot(None, JsonAbsent, JsonAbsent, None, None, None, None, TRUE, TRUE)
        ELSE IF i = 2 THEN RawSlot(Some(40), JsonNumber(3, 1), JsonNumber(5, 1), None, None, None, None, FALSE, TRUE)
        ELSE IF i = 3 THEN RawSlot(None, JsonNumber(0, 1), JsonNumber(0, 1), Some(Frac(2601, 2)), Some(Frac(481, 4)),
                                   Some(Frac(2003, 4)), Some(FracOfInt(300)), FALSE, TRUE)
        ELSE IF i = 5 THEN RawSlot(None, JsonNumber(0, 1), JsonNumber(3, 1), Some(Frac(-5, 2)), None, None, None, FALSE, TRUE)
        ELSE IF i = 6 THEN RawSlot(None, JsonNumber(0, 1), JsonNumber(4, 1), None, None, None, Some(FracOfInt(250)), FALSE, TRUE)
        ELSE IF i = 8 THEN RawSlot(None, JsonNumber(1, 1), JsonNumber(0, 1), None, None, Some(FracOfInt(300)), None, FALSE, TRUE)
        ELSE IF i = 7 THEN RawSlot(None, JsonNumber(0, 1), JsonNumber(4, 1), None, None, None, None, FALSE, FALSE)
        ELSE PlainSlot((i - 2) \div COLUMNS, (i - 2) % COLUMNS)]

\* 24 definitions, the last one switched off
SparseSlots ==
    [i \in 1..SLOT_COUNT |->
        IF i = SLOT_COUNT THEN RawSlot(None, JsonNumber(3, 1), JsonNumber(5, 1), None, None, None, None, TRUE, TRUE)
        ELSE PlainSlot((i - 1) \div COLUMNS, (i - 1) % COLUMNS)]

SlotFiles == {[exists |-> TRUE, slots |-> GridSlots],
              [exists |-> TRUE, slots |-> MixedSlots],
              [exists |-> TRUE, slots |-> SparseSlots]}

\* a manifest entry left behind for a file that is no longer on disk
StaleEntry == TrashEntry(1, PaintName("gone"), 1)

\* a manifest entry made before the start for the image batch-0001/b1.png
OldEntry == TrashEntry(2, Batch1 \o <<"/", "b1", ".", "png">>, 2)

NoResp == Resp("none", 0, <<>>)

Init ==
    /\ pin = <<>>
    /\ pres = NoCall
    /\ \E d \in InitialDisks : uploadDirMade = d.made /\ disk = d.disk
    /\ readdirRev = FALSE
    /\ slotFile = [exists |-> TRUE, slots |-> GridSlots]
    /\ trash = <<OldEntry, StaleEntry>>
    /\ selection = None
    /\ sessions = <<>>
    /\ nextToken = 1
    /\ nextTrashId = 3
    /\ now = StartTime
    /\ resp = NoResp
    /\ beforeDelete = None
    /\ request = NoRequest
    /\ PagesLoaded

Next ==
    \/ \E c \in Cookies : GetList(c)
    \/ \E c \in Cookies : GetFolders(c)
    \/ \E c \in Cookies : GetTrash(c)
    \/ \E c \in Cookies : GetBatches(c)
    \/ \E c \in Cookies : PostSelect(c)
    \/ \E c \in Cookies : PostRestore(c)
    \/ GetSlots
    \/ \E b \in UploadBodies : PostUpload(b)
    \/ \E b \in PlainLoginBodies : PostLogin(b)
    \/ \E c \in Cookies : PostLogout(c)
    \/ \E c \in Cookies : Delete(c)

Spec == Init /\ [][Next]_vars

\* the server started on the stocked uploads directory, whose 24 images fill
\* one window of the slot layout exactly
InitSlots ==
    /\ pin = <<>>
    /\ pres = NoCall
    /\ uploadDirMade = TRUE
    /\ disk = StockedDisk
    /\ readdirRev \in BOOLEAN
    /\ slotFile \in SlotFiles
    /\ trash = <<>>
    /\ selection = None
    /\ sessions = <<>>
    /\ nextToken = 1
    /\ nextTrashId = 3
    /\ now = StartTime
    /\ resp = NoResp
    /\ beforeDelete = None
    /\ request = NoRequest
    /\ PagesLoaded

\* the requests that change what the slot layout shows, and the layout request
NextSlots ==
    \/ \E b \in PlainLoginBodies : PostLogin(b)
    \/ \E b \in UploadBodies : PostUpload(b)
    \/ \E c \in Cookies : PostSelect(c)
    \/ \E c \in Cookies : Delete(c)
    \/ GetSlots

SpecSlots == InitSlots /\ [][NextSlots]_vars


----------------------------------------------------------------------------
(* Claims about the path sandbox *)

\* a path, read segment by segment, is dir itself or lies below it
SegsInside(p, dir) ==
    LET ps == Split(p)
        ds == Split(dir)
    IN  /\ Len(ps) >= Len(ds)
        /\ SubSeq(ps, 1, Len(ds)) = ds
        /\ \A i \in (Len(ds) + 1)..Len(ps) : ps[i] # <<>> /\ ps[i] # Dot /\ ps[i] # DotDot

\* C1: whatever the input, safeUploadsPath and safePublicPath either throw or
\* return an absolute path that is their root directory or a descendant of it.
C1_SandboxContains ==
    /\ (pres.fn = "uploads" /\ pres.ok) => (IsAbsolute(pres.val) /\ SegsInside(pres.val, UPLOAD_DIR))
    /\ (pres.fn = "public" /\ pres.ok) => (IsAbsolute(pres.val) /\ SegsInside(pres.val, PUBLIC_DIR))

\* C1 witness: an input that climbs out with ".." was answered with a path
\* (not a throw) by safePublicPath.
C1_Witness ==
    /\ pres.fn = "public"
    /\ pres.ok
    /\ StartsWith(pin, <<".", ".", "/">>)
    /\ Len(pres.val) > Len(PUBLIC_DIR)

\* the normalised form of a decoded input begins with a ".." segment
LeadsWithDotDot(s) == Head(Split(Normalize(s))) = DotDot

\* dir followed by the non-empty segments of rel
Under(dir, rel) == Join(<<dir>> \o SelectSeq(Split(rel), LAMBDA seg : seg # <<>>))

\* C2 (as stated): safeUploadsPath rejects every absolute input and every input
\* whose normalised form starts with ".." segments, and resolves
\* "batch-0001/x.png" to <root>/batch-0001/x.png.
C2_RejectsTraversal ==
    pres.fn = "uploads" =>
        LET decoded == DecodeURIComponent(pin)
        IN  /\ (decoded.ok /\ (IsAbsolute(decoded.val) \/ LeadsWithDotDot(decoded.val))) => ~pres.ok
            /\ pin = BatchXPng => (pres.ok /\ pres.val = UPLOAD_DIR \o Slash \o BatchXPng)

\* C2 (amended): safeUploadsPath rejects every absolute input; an input whose
\* normalised form starts with ".." segments has its leading "../" (or "..\")
\* prefixes stripped and the remainder resolved under the root, and is rejected
\* only when that remainder is itself absolute; "batch-0001/x.png" is resolved
\* to <root>/batch-0001/x.png.
C2_StripsTraversal ==
    pres.fn = "uploads" =>
        LET decoded == DecodeURIComponent(pin)
            rest == StripLeadingDotDot(Normalize(decoded.val))
        IN  /\ (decoded.ok /\ IsAbsolute(decoded.val)) => ~pres.ok
            /\ (decoded.ok /\ LeadsWithDotDot(decoded.val)) =>
                   IF IsAbsolute(rest) THEN ~pres.ok
                   ELSE pres.ok /\ pres.val = Under(UPLOAD_DIR, rest)
            /\ pin = BatchXPng => (pres.ok /\ pres.val = UPLOAD_DIR \o Slash \o BatchXPng)

\* C2 witness: "../../etc/passwd" was answered with <root>/etc/passwd.
C2_Witness ==
    /\ pres.fn = "uploads"
    /\ pin = EtcPasswd
    /\ pres.ok
    /\ pres.val = UPLOAD_DIR \o <<"/", "etc", "/", "passwd">>

----------------------------------------------------------------------------
(* Claims about the slot layout *)

\* the definitions of slot.json that are switched on, by ascending slot
\* number, definitions of equal number in file order
EnabledSlots ==
    LET raws == slotFile.slots
        number(i) == IF IsSome(raws[i].slot) THEN raws[i].slot[1] ELSE i
        on == {i \in 1..Len(raws) : ~raws[i].disabled /\ raws[i].enabled}
        precedes(i, j) == number(i) < number(j) \/ (number(i) = number(j) /\ i < j)
    IN  [r \in 1..Cardinality(on) |->
            raws[CHOOSE i \in on : Cardinality({j \in on : precedes(j, i)}) + 1 = r]]

\* slot.json is there, holds at least 24 definitions, at least 24 of them
\* switched on, and every one switched on has its row and column
ValidSlotConfig ==
    /\ slotFile.exists
    /\ Len(slotFile.slots) >= SLOT_COUNT
    /\ Len(EnabledSlots) >= SLOT_COUNT
    /\ \A i \in 1..Len(EnabledSlots) :
          EnabledSlots[i].row.kind = "number" /\ EnabledSlots[i].col.kind = "number"

\* the images of the selected 24-image window, oldest first
SelectedWindow ==
    LET live == VisibleOf(getOrderedImages, trash)
        index == getSelectedBatchIndex(CeilDiv(Len(live), SLOT_COUNT))
    IN  IF ~IsSome(index) THEN <<>>
        ELSE SubSeq(live, index[1] * SLOT_COUNT + 1,
                    IF (index[1] + 1) * SLOT_COUNT < Len(live)
                    THEN (index[1] + 1) * SLOT_COUNT ELSE Len(live))

\* C3: with a valid slot configuration and k images in the selected window,
\* GET /api/slots answers min(24, k) items; the i-th item is the i-th image
\* of the window in the i-th enabled slot by ascending slot number, and no
\* image appears twice
C3_SlotsZipWindow ==
    (resp.op = "slots" /\ ValidSlotConfig) =>
        LET window == SelectedWindow
            slots == EnabledSlots
            items == resp.body.array
        IN  /\ resp.status = 200
            /\ Len(items) = (IF Len(window) < SLOT_COUNT THEN Len(window) ELSE SLOT_COUNT)
            /\ \A i \in 1..Len(items) :
                  /\ items[i].url = UrlOf(RelPathOf(window[i]))
                  /\ slots[i].row.num = FracOfInt(items[i].row)
                  /\ slots[i].col.num = FracOfInt(items[i].col)
            /\ \A i, j \in 1..Len(items) : i # j => items[i].url # items[j].url

\* a full window laid out over a slot file with slots switched off, while
\* more than 24 images are live
C3_Witness ==
    /\ resp.op = "slots"
    /\ ValidSlotConfig
    /\ Len(resp.body.array) = SLOT_COUNT
    /\ \E i \in 1..Len(slotFile.slots) : slotFile.slots[i].disabled
    /\ Len(VisibleOf(getOrderedImages, trash)) > SLOT_COUNT

----------------------------------------------------------------------------
(* Claims about the trash manifest *)

\* the paths the manifest holds
TrashedPaths == {trash[i].path : i \in 1..Len(trash)}

\* the .png files of the uploads directory and of its batch-NNNN folders
PngPaths ==
    {RelPathOf(disk[i]) :
        i \in {k \in 1..Len(disk) :
                 /\ disk[k].kind = "file"
                 /\ EndsWith(disk[k].name, DotPng)
                 /\ \/ disk[k].dir = <<>>
                    \/ isBatchDirName(disk[k].dir) /\ KindAt(<<>>, disk[k].dir) = "dir"}}

\* C4: GET /api/list, /api/batches and /api/slots never show an image whose
\* path is in the manifest, and GET /api/list shows every .png file of the
\* upload root and its batch-NNNN folders that is not in the manifest, once
C4_ListingsHideTrash ==
    /\ (resp.op = "list" /\ resp.status = 200) =>
          /\ {resp.body.array[i].path : i \in 1..Len(resp.body.array)} = PngPaths \ TrashedPaths
          /\ Len(resp.body.array) = Cardinality(PngPaths \ TrashedPaths)
    /\ (resp.op = "batches" /\ resp.status = 200) =>
          \A b \in 1..Len(resp.body.batches) :
             \A i \in 1..Len(resp.body.batches[b].items) :
                resp.body.batches[b].items[i].path \notin TrashedPaths
    /\ (resp.op = "slots" /\ resp.status = 200) =>
          \A i \in 1..Len(resp.body.array) :
             \A p \in TrashedPaths : resp.body.array[i].url # UrlOf(p)

\* a listing answered while an image on disk is in the manifest
C4_Witness ==
    /\ resp.op = "list"
    /\ resp.status = 200
    /\ resp.body.array # <<>>
    /\ PngPaths \cap TrashedPaths # {}

\* C5: a successful delete of a listed image followed by a successful
\* restore of the entry it made leaves the file as it was, leaves the manifest
\* without an entry for the image, and makes the listing what it was before
C5_TrashRoundTrip ==
    (/\ resp.op = "restore"
     /\ resp.status = 200
     /\ IsSome(beforeDelete)
     /\ resp.arg = [id |-> beforeDelete[1].id]
     /\ \E i \in 1..Len(beforeDelete[1].list) :
           beforeDelete[1].list[i].path = beforeDelete[1].path) =>
        /\ resp.body.path = beforeDelete[1].path
        /\ FileAt(beforeDelete[1].path) = beforeDelete[1].file
        /\ beforeDelete[1].path \notin TrashedPaths
        /\ listImages = beforeDelete[1].list

\* the entry a delete made has just been restored, several images listed
C5_Witness ==
    /\ resp.op = "restore"
    /\ resp.status = 200
    /\ IsSome(beforeDelete)
    /\ resp.arg = [id |-> beforeDelete[1].id]
    /\ Len(beforeDelete[1].list) > 1
    /\ IsSome(beforeDelete[1].file)

\* C6 as stated: after a successful delete no file is left at the image's
\* original path under the upload root
C6_DeleteRelocates ==
    (resp.op = "delete" /\ resp.status = 200) => ~IsSome(FileAt(resp.body.path))

\* C6, amended: a successful delete leaves the file at its original path and
\* the disk as it was, and the manifest records that path; a successful
\* restore leaves the disk as it was and drops the path from the manifest
C6_DeleteKeepsFileInPlace ==
    [][(resp'.op \in {"delete", "restore"} /\ resp'.status = 200) =>
          /\ disk' = disk
          /\ resp'.op = "delete" =>
                /\ IsSome(FileAt(resp'.body.path))
                /\ resp'.body.path \in {trash'[i].path : i \in 1..Len(trash')}
          /\ resp'.op = "restore" =>
                resp'.body.path \notin {trash'[i].path : i \in 1..Len(trash')}]_vars

\* a delete answered 200 with the file still at the path it named
C6_Witness ==
    /\ resp.op = "delete"
    /\ resp.status = 200
    /\ IsSome(FileAt(resp.body.path))
    /\ resp.body.path \in TrashedPaths
    /\ IsSome(beforeDelete)
    /\ beforeDelete[1].id = nextTrashId - 1

\* the target of a delete request names an existing file whose path the
\* manifest holds
AlreadyTrashed(target) ==
    LET sourcePath == SafeUploadsPath(target)
    IN  /\ sourcePath.ok
        /\ IsSome(FileAt(Relative(UPLOAD_DIR, sourcePath.val)))
        /\ Relative(UPLOAD_DIR, sourcePath.val) \in TrashedPaths

\* C7 as stated: a delete request for an image already in the manifest is
\* not answered as a success and leaves the manifest unchanged
C7_RepeatDeleteFails ==
    [][(resp'.op = "delete" /\ resp'.arg # None /\ AlreadyTrashed(resp'.arg.path)) =>
          (resp'.status # 200 /\ trash' = trash)]_vars

\* C7, amended: a delete request for an image already in the manifest is
\* answered 200 with the path of the entry the manifest holds, and leaves the
\* manifest unchanged
C7_RepeatDeleteSucceeds ==
    [][(resp'.op = "delete" /\ resp'.arg # None /\ AlreadyTrashed(resp'.arg.path)) =>
          /\ resp'.status = 200
          /\ resp'.body.path = Relative(UPLOAD_DIR, SafeUploadsPath(resp'.arg.path).val)
          /\ trash' = trash]_vars

\* a delete answered for the image whose entry was made before the start
C7_Witness ==
    /\ resp.op = "delete"
    /\ resp.arg # None
    /\ AlreadyTrashed(resp.arg.path)
    /\ resp.status = 200
    /\ resp.body.path = OldEntry.path
    /\ OldEntry \in {trash[i] : i \in 1..Len(trash)}

\* C8: POST /api/restore with an id of a manifest entry removes exactly that
\* entry, the others staying in order, and answers its path; with an id of
\* no entry it answers 404 and leaves the manifest unchanged
C8_RestoreRemovesExactlyOne ==
    [][(resp'.op = "restore" /\ resp'.arg # None) =>
          LET hits == {i \in 1..Len(trash) : trash[i].id = resp'.arg.id}
          IN  IF hits = {}
              THEN resp'.status = 404 /\ trash' = trash
              ELSE \E i \in hits :
                      /\ resp'.status = 200
                      /\ resp'.body.path = trash[i].path
                      /\ trash' = SubSeq(trash, 1, i - 1) \o SubSeq(trash, i + 1, Len(trash))]_vars

\* the id of the stale entry, restored before, is answered 404 while other
\* entries are still in the manifest
C8_Witness ==
    /\ resp.op = "restore"
    /\ resp.arg = [id |-> StaleEntry.id]
    /\ resp.status = 404
    /\ trash # <<>>

\* the manifest entries whose file is on disk, in manifest order
EntriesOnDisk(list) == SelectSeq(list, LAMBDA e : IsSome(FileAt(e.path)))

\* C9: listTrash answers, in manifest order, exactly the manifest entries
\* whose file exists under the upload root, and leaves the manifest as it was
C9_ListTrashOnlyReads ==
    [][(resp'.op = "trash" /\ resp'.status = 200) =>
          /\ trash' = trash
          /\ Len(resp'.body.array) = Len(EntriesOnDisk(trash))
          /\ \A i \in 1..Len(resp'.body.array) :
                /\ resp'.body.array[i].id = EntriesOnDisk(trash)[i].id
                /\ resp'.body.array[i].path = EntriesOnDisk(trash)[i].path]_vars

\* a trash listing that shows an entry and leaves out a stale one, which is
\* still in the manifest
C9_Witness ==
    /\ resp.op = "trash"
    /\ resp.status = 200
    /\ resp.body.array # <<>>
    /\ Len(resp.body.array) < Len(trash)
    /\ StaleEntry \in {trash[i] : i \in 1..Len(trash)}

\* C10 as stated: a delete request whose target does not exist under the
\* upload root is answered 404 and leaves the manifest unchanged; one for an
\* existing file not in the manifest is answered 200 with the file's
\* normalised relative path, and the manifest gains exactly one entry, for it
C10_DeleteOutcomes ==
    [][(resp'.op = "delete" /\ resp'.arg # None /\ SafeUploadsPath(resp'.arg.path).ok) =>
          LET sourcePath == SafeUploadsPath(resp'.arg.path).val
              normalized == Relative(UPLOAD_DIR, sourcePath)
          IN  /\ Access(sourcePath) # "ok" =>
                    (resp'.status = 404 /\ trash' = trash)
              /\ (IsSome(FileAt(normalized)) /\ normalized \notin TrashedPaths) =>
                    /\ resp'.status = 200
                    /\ resp'.body.path = normalized
                    /\ \E k \in 1..Len(trash') :
                          /\ trash'[k].path = normalized
                          /\ SubSeq(trash', 1, k - 1) \o SubSeq(trash', k + 1, Len(trash')) = trash]_vars

----------------------------------------------------------------------------
(* uniqueFilename on directories that already hold numbered names *)

\* stem-k ext, the k-th name uniqueFilename tries for stem ext (k = 0: stem ext)
Numbered(stem, ext, k) ==
    IF k = 0 THEN stem \o ext ELSE stem \o <<"-", ToString(k)>> \o ext

\* the names asked for: one with an extension, one without, one that is only
\* a leading dot and letters (path.extname finds no extension in it)
NameInputs == {PaintName("T"), <<"notes">>, <<".", "env">>}

\* the names a directory may hold at the start: the name with an extension
\* and its numbered variants, the names without one, and the numbered names
\* uniqueFilename builds for a name without extension ("-1", "-2", ...)
NamePool ==
    <<PaintName("T"), <<"notes">>>>
        \o [k \in 1..MaxTaken |-> Numbered(<<"paint-", "T">>, DotPng, k)]
        \o [k \in 1..MaxTaken |-> Numbered(<<>>, <<>>, k)]

NamesInDir == {disk[i].name : i \in {j \in 1..Len(disk) : disk[j].dir = <<>>}}

NamesInit ==
    /\ pin \in NameInputs
    /\ pres = NoCall
    /\ uploadDirMade = TRUE
    /\ \E held \in SUBSET {NamePool[k] : k \in 1..Len(NamePool)} :
          disk = [k \in 1..Cardinality(held) |->
                     FileEntry(<<>>, SelectSeq(NamePool, LAMBDA n : n \in held)[k], 1, NoData)]
    /\ readdirRev = FALSE
    /\ slotFile = [exists |-> FALSE, slots |-> <<>>]
    /\ trash = <<>>
    /\ selection = None
    /\ sessions = <<>>
    /\ nextToken = 1
    /\ nextTrashId = 3
    /\ now = StartTime
    /\ resp = NoResp
    /\ beforeDelete = None
    /\ request = NoRequest
    /\ PagesLoaded

\* a call of uniqueFilename(pin, UPLOAD_DIR)
CallUniqueFilename ==
    /\ pres.fn = "none"
    /\ pres' = [fn |-> "unique", ok |-> TRUE, val |-> uniqueFilename(pin, UPLOAD_DIR)]
    /\ UNCHANGED <<pageVars, pin, serverVars>>

\* the caller writes the file under the name it was given, as handleUpload does
WriteReturned ==
    /\ pres.fn = "unique"
    /\ Len(disk) <= Len(NamePool)
    /\ disk' = Append(disk, FileEntry(<<>>, pres.val, now, NoData))
    /\ pres' = NoCall
    /\ UNCHANGED <<pageVars, pin, uploadDirMade, readdirRev, slotFile, trash, selection, sessions,
                   nextToken, nextTrashId, now, resp, beforeDelete, request>>

NamesNext == CallUniqueFilename \/ WriteReturned

SpecNames == NamesInit /\ [][NamesNext]_vars

\* C11: uniqueFilename(name, dir) never returns a name that exists in dir at
\* the time of the call, whatever names dir already holds (name, name-1,
\* name-2, ... included)
C11_UniqueNameIsFree ==
    pres.fn = "unique" => pres.val \notin NamesInDir

\* a call for a name that is taken together with its first two numbered
\* variants, answered with a later variant
C11_Witness ==
    /\ pres.fn = "unique"
    /\ pin = PaintName("T")
    /\ {Numbered(<<"paint-", "T">>, DotPng, k) : k \in 0..2} \subseteq NamesInDir
    /\ pres.val \notin {Numbered(<<"paint-", "T">>, DotPng, k) : k \in 0..2}

----------------------------------------------------------------------------
(* A burst of uploads into an empty uploads directory *)

\* Date.now() moves on by a millisecond
Tick ==
    /\ now < StartTime + MaxTicks
    /\ now' = now + 1
    /\ UNCHANGED <<pageVars, pin, pres, uploadDirMade, disk, readdirRev, slotFile, trash, selection,
                   sessions, nextToken, nextTrashId, resp, beforeDelete, request>>

InitUploads ==
    /\ pin = <<>>
    /\ pres = NoCall
    /\ uploadDirMade = TRUE
    /\ disk = <<>>
    /\ readdirRev \in BOOLEAN
    /\ slotFile = [exists |-> TRUE, slots |-> GridSlots]
    /\ trash = <<>>
    /\ selection = None
    /\ sessions = <<>>
    /\ nextToken = 1
    /\ nextTrashId = 3
    /\ now = StartTime
    /\ resp = NoResp
    /\ beforeDelete = None
    /\ request = NoRequest
    /\ PagesLoaded

\* POST /api/upload, as one of a burst
UploadInBurst(body) ==
    /\ handleUpload(body, MaxBurst)
    /\ request' = Request(0, IF body.json = "invalid" THEN "badjson" ELSE "json")

NextUploads ==
    \/ \E b \in PlainLoginBodies : PostLogin(b)
    \/ \E b \in UploadBodies : UploadInBurst(b)
    \/ Tick
    \/ \E c \in Cookies : GetList(c)

SpecUploads == InitUploads /\ [][NextUploads]_vars

\* the modification time of the file a listed item names
MtimeIn(d, item) ==
    LET i == CHOOSE j \in 1..Len(d) : RelPathOf(d[j]) = item.path IN d[i].mtime

\* C12: after N successful uploads into an empty uploads directory (and no
\* deletes), every upload has returned the name of a file that was not there
\* before, and GET /api/list returns exactly N entries, one per uploaded file,
\* ordered non-decreasing by modification time
C12_ListHasEveryUpload ==
    [][/\ (resp'.op = "upload" /\ resp'.status = 200 /\ disk' # disk) =>
            /\ Len(disk') = Len(disk) + 1
            /\ resp'.body.filename \notin NamesInDir
            /\ resp'.body.filename = disk'[Len(disk')].name
       /\ (resp'.op = "list" /\ resp'.status = 200) =>
            LET items == resp'.body.array
            IN  /\ Len(items) = Len(disk')
                /\ \A e \in 1..Len(disk') :
                      Cardinality({i \in 1..Len(items) : items[i].filename = disk'[e].name}) = 1
                /\ \A i \in 1..Len(items) : \E e \in 1..Len(disk') : RelPathOf(disk'[e]) = items[i].path
                /\ \A i, j \in 1..Len(items) :
                      i < j => MtimeIn(disk', items[i]) <= MtimeIn(disk', items[j])]_vars

\* a listing of three uploads, two of them written in the same millisecond,
\* read from a directory that enumerates newest first
C12_Witness ==
    /\ resp.op = "list"
    /\ resp.status = 200
    /\ Len(resp.body.array) = 3
    /\ Len(disk) = 3
    /\ readdirRev
    /\ disk[1].mtime = disk[2].mtime
    /\ disk[2].mtime < disk[3].mtime

----------------------------------------------------------------------------
(* Claims about the batch selection *)

\* the paths of the images that are not in the manifest, oldest first
LivePaths ==
    LET ordered == getOrderedImages
    IN  SelectSeq([i \in 1..Len(ordered) |-> RelPathOf(ordered[i])],
                  LAMBDA p : p \notin TrashedPaths)

\* a persisted selection clamped to total >= 1 batches
Clamped(persisted, total) ==
    IF ~IsSome(persisted) THEN 0
    ELSE IF persisted[1] < 0 THEN 0
    ELSE IF persisted[1] >= total THEN total - 1
    ELSE persisted[1]

\* C13: with a valid slot configuration the images of GET /api/slots are,
\* oldest first, the live images at positions [s*24, s*24+24) of the ordered
\* index, s being the persisted selection clamped to the existing batches;
\* they are the items of the one batch GET /api/batches flags isSelected
C13_SlotsShowSelectedBatch ==
    (resp.op = "slots" /\ ValidSlotConfig) =>
        LET live == LivePaths
            total == CeilDiv(Len(live), SLOT_COUNT)
            s == Clamped(selection, total)
            batches == listBatches.batches
            flagged == {b \in 1..Len(batches) : batches[b].isSelected}
            items == resp.body.array
        IN  /\ resp.status = 200
            /\ IF live = <<>>
               THEN items = <<>> /\ flagged = {}
               ELSE /\ flagged = {s + 1}
                    /\ batches[s + 1].index = s
                    /\ Len(items) = Len(batches[s + 1].items)
                    /\ Len(items) = (IF Len(live) - s * SLOT_COUNT < SLOT_COUNT
                                     THEN Len(live) - s * SLOT_COUNT ELSE SLOT_COUNT)
                    /\ \A i \in 1..Len(items) :
                          /\ items[i].url = batches[s + 1].items[i].url
                          /\ items[i].url = UrlOf(live[s * SLOT_COUNT + i])

\* the layout of the second of two batches, which holds one image
C13_Witness ==
    /\ resp.op = "slots"
    /\ ValidSlotConfig
    /\ selection = Some(1)
    /\ Len(LivePaths) = SLOT_COUNT + 1
    /\ Len(resp.body.array) = 1
    /\ listBatches.batches[2].isSelected

\* getSelectedBatchIndex on every persisted selection and number of batches

StoredSelections == {None} \cup {Some(i) : i \in (-2)..MaxStored}

InitSelection ==
    /\ pin = <<>>
    /\ pres = NoCall
    /\ uploadDirMade = FALSE
    /\ disk = <<>>
    /\ readdirRev = FALSE
    /\ slotFile = [exists |-> FALSE, slots |-> <<>>]
    /\ trash = <<>>
    /\ selection \in StoredSelections
    /\ sessions = <<>>
    /\ nextToken = 1
    /\ nextTrashId = 3
    /\ now = StartTime
    /\ resp = NoResp
    /\ beforeDelete = None
    /\ request = NoRequest
    /\ PagesLoaded

\* a call getSelectedBatchIndex(total); pres.val is <<total, what it returned>>
CallGetSelectedBatchIndex ==
    /\ pres.fn = "none"
    /\ \E total \in 0..MaxBatches :
          pres' = [fn |-> "selected", ok |-> TRUE, val |-> <<total, getSelectedBatchIndex(total)>>]
    /\ UNCHANGED <<pageVars, pin, serverVars>>

NextSelection == CallGetSelectedBatchIndex

SpecSelection == InitSelection /\ [][NextSelection]_vars

\* C14: getSelectedBatchIndex(total) returns null when total is 0; for
\* total >= 1 it returns an integer in [0, total-1]: the persisted value when
\* that is in range, 0 when it is negative or nothing is persisted, total-1
\* when it is >= total
C14_SelectedIndexClamped ==
    pres.fn = "selected" =>
        LET total == pres.val[1]
            got == pres.val[2]
        IN  IF total = 0 THEN got = None
            ELSE /\ IsSome(got)
                 /\ got[1] \in 0..(total - 1)
                 /\ (IsSome(selection) /\ selection[1] \in 0..(total - 1)) => got = selection
                 /\ (~IsSome(selection) \/ selection[1] < 0) => got[1] = 0
                 /\ (IsSome(selection) /\ selection[1] >= total) => got[1] = total - 1

\* a persisted selection past the last of three batches, resolved to the last
C14_Witness ==
    /\ pres.fn = "selected"
    /\ pres.val[1] = 3
    /\ selection = Some(5)
    /\ pres.val[2] = Some(2)

\* C15 as stated: POST /api/batches/select persists a selection only when the
\* body's index is a non-negative finite number, then storing floor(index)
\* and answering {ok: true}; when index is absent or anything else (negative,
\* not finite, or a JSON null, string, boolean or array) the answer is 400
\* and the persisted selection is unchanged
C15_SelectValidatesIndex ==
    [][(resp'.op = "select" /\ resp'.arg # None) =>
          LET v == resp'.arg.index
          IN  IF v.kind = "number" /\ v.num[1] >= 0
              THEN /\ resp'.status = 200
                   /\ resp'.body = [ok |-> TRUE]
                   /\ selection' = Some(v.num[1] \div v.num[2])
              ELSE /\ resp'.status = 400
                   /\ selection' = selection]_vars

----------------------------------------------------------------------------
(* Claims about the numbers of the slot layout *)

\* the integer r is the fraction a rounded to the nearest integer
IsNearest(r, a) ==
    LET off == r * a[2] - a[1] IN 2 * off <= a[2] /\ -2 * off <= a[2]

\* the file an output item shows
ImageOf(item) ==
    disk[CHOOSE j \in 1..Len(disk) : UrlOf(RelPathOf(disk[j])) = item.url]

\* the header of the item's file can be read
Readable(item) ==
    LET data == ImageOf(item).data IN data.sigHi /\ data.width # 0 /\ data.height # 0

\* C16: for every item of GET /api/slots whose slot defines an explicit x, y
\* or w, the item's x, y or w is that value rounded to the nearest integer,
\* whatever the slot's row and column and the image's native size
C16_ExplicitXYWRounded ==
    (resp.op = "slots" /\ resp.status = 200) =>
        \A i \in 1..Len(resp.body.array) :
            LET item == resp.body.array[i]
                slot == EnabledSlots[i]
            IN  /\ IsSome(slot.x) => IsNearest(item.x, slot.x[1])
                /\ IsSome(slot.y) => IsNearest(item.y, slot.y[1])
                /\ IsSome(slot.w) => IsNearest(item.w, slot.w[1])

\* the slot with the rectangle 1300.5, 120.25, 500.75 shows an image that is
\* taller than wide
C16_Witness ==
    /\ resp.op = "slots"
    /\ resp.status = 200
    /\ resp.body.array # <<>>
    /\ EnabledSlots[1].x = Some(Frac(2601, 2))
    /\ resp.body.array[1].x = 1301
    /\ resp.body.array[1].y = 120
    /\ resp.body.array[1].w = 501
    /\ ImageOf(resp.body.array[1]).data.height > ImageOf(resp.body.array[1]).data.width

\* the unrounded width listSlots gives an item in the slot
WidthIn(slot) ==
    IF IsSome(slot.w) THEN slot.w[1]
    ELSE Frac(OVERLAY_WIDTH - PADDING_LEFT - PADDING_RIGHT - GAP * (COLUMNS - 1), COLUMNS)

\* C17 as stated: for every item whose slot defines an explicit h, the item's
\* h is that h rounded to the nearest integer, whether or not the image's PNG
\* header is readable
C17_ExplicitHKept ==
    (resp.op = "slots" /\ resp.status = 200) =>
        \A i \in 1..Len(resp.body.array) :
            IsSome(EnabledSlots[i].h) =>
                IsNearest(resp.body.array[i].h, EnabledSlots[i].h[1])

\* C17, amended: for every item whose slot defines an explicit h, the item's
\* h is that h rounded to the nearest integer when the image's PNG header
\* cannot be read; when it can, h is the item's width scaled by the image's
\* native height / width, rounded
C17_ExplicitHUnlessHeaderRead ==
    (resp.op = "slots" /\ resp.status = 200) =>
        \A i \in 1..Len(resp.body.array) :
            LET item == resp.body.array[i]
                slot == EnabledSlots[i]
                data == ImageOf(item).data
            IN  IsSome(slot.h) =>
                    IF Readable(item)
                    THEN IsNearest(item.h, FracDiv(FracMul(WidthIn(slot), FracOfInt(data.height)),
                                                   FracOfInt(data.width)))
                    ELSE IsNearest(item.h, slot.h[1])

\* an image with an unreadable header in the slot with h = 250, shown 250
\* high, next to a readable one in the slot with h = 300, shown 334 high
C17_Witness ==
    /\ resp.op = "slots"
    /\ resp.status = 200
    /\ Len(resp.body.array) >= 4
    /\ EnabledSlots[4].h = Some(FracOfInt(250))
    /\ ~Readable(resp.body.array[4])
    /\ resp.body.array[4].h = 250
    /\ EnabledSlots[1].h = Some(FracOfInt(300))
    /\ Readable(resp.body.array[1])
    /\ resp.body.array[1].h = 334

\* C18 as stated: for every item whose slot defines no explicit x,
\* x = round(1152 + 100 + col * (cellWidth + 50)) with the exact cellWidth
\* (3576 - 100 - 100 - 50*5) / 6 = 3326/6, which from col 3 on is not what
\* the pre-rounded 554 gives; the slot at col 0, row 0 yields x = 1252 and
\* y = 100
C18_GridXFromExactCellWidth ==
    (resp.op = "slots" /\ resp.status = 200) =>
        \A i \in 1..Len(resp.body.array) :
            LET item == resp.body.array[i]
                slot == EnabledSlots[i]
            IN  /\ ~IsSome(slot.x) =>
                      /\ IsNearest(item.x, Frac((1152 + 100) * 6 + item.col * (3326 + 50 * 6), 6))
                      /\ item.col >= 3 => item.x # 1152 + 100 + item.col * (554 + 50)
                      /\ item.col = 0 => item.x = 1252
                /\ (~IsSome(slot.y) /\ item.row = 0) => item.y = 100

\* C18, amended: for every item whose slot defines no explicit x,
\* x = round(1152 + 100 + col * (cellWidth + 50)) with cellWidth =
\* (3576 - 100 - 100 - 50*5) / 6 = 3126/6 = 521, that is x = 1252 + col * 571;
\* the slot at col 0, row 0 yields x = 1252 and y = 100
C18_GridXFromCellWidth ==
    (resp.op = "slots" /\ resp.status = 200) =>
        \A i \in 1..Len(resp.body.array) :
            LET item == resp.body.array[i]
                slot == EnabledSlots[i]
            IN  /\ ~IsSome(slot.x) =>
                      /\ IsNearest(item.x, Frac((1152 + 100) * 6 + item.col * (3126 + 50 * 6), 6))
                      /\ item.x = 1252 + item.col * 571
                /\ (~IsSome(slot.x) /\ ~IsSome(slot.y) /\ item.col = 0 /\ item.row = 0) =>
                      (item.x = 1252 /\ item.y = 100)

\* the item in the plain slot at col 3 has x = 2965, the one at col 0,
\* row 0 has x = 1252 and y = 100
C18_Witness ==
    /\ resp.op = "slots"
    /\ resp.status = 200
    /\ slotFile.slots = GridSlots
    /\ Len(resp.body.array) >= 4
    /\ resp.body.array[1].col = 0 /\ resp.body.array[1].row = 0
    /\ resp.body.array[1].x = 1252 /\ resp.body.array[1].y = 100
    /\ resp.body.array[4].col = 3 /\ resp.body.array[4].x = 2965

\* the items of the response that lie in the row
ItemsInRow(row) ==
    {i \in 1..Len(resp.body.array) : resp.body.array[i].row = row}

\* the greatest height among the items of the row, 0 for a row without items
MaxHeightInRow(row) ==
    IF ItemsInRow(row) = {} THEN 0
    ELSE LET top == CHOOSE i \in ItemsInRow(row) :
                        \A j \in ItemsInRow(row) : resp.body.array[j].h <= resp.body.array[i].h
         IN  resp.body.array[top].h

\* PADDING_TOP plus, for every row above, its greatest item height and the gap
RECURSIVE StackedY(_)
StackedY(row) ==
    IF row = 0 THEN 100 ELSE StackedY(row - 1) + MaxHeightInRow(row - 1) + 50

\* C19 as stated: for every item whose slot defines no explicit y, y is the
\* top padding plus the sum, over the rows above the item's row, of the
\* greatest height of the items in that row plus the gap (to within the
\* rounding of those heights), and row 0 has y = 100
C19_RowsStackRealHeights ==
    (resp.op = "slots" /\ resp.status = 200) =>
        \A i \in 1..Len(resp.body.array) :
            LET item == resp.body.array[i]
            IN  ~IsSome(EnabledSlots[i].y) =>
                    /\ item.y - StackedY(item.row) \in (-item.row)..item.row
                    /\ item.row = 0 => item.y = 100

\* C20 as stated: an image whose PNG header cannot be read never makes
\* GET /api/slots fail; its item is still output in its slot, and when the
\* slot defines no explicit h the item has the default 600:400 ratio,
\* h = round(w * 400 / 600) for the item's own unrounded width w, an explicit
\* slot w included
C20_UnreadableHeaderDefaultRatio ==
    (resp.op = "slots" /\ ValidSlotConfig) =>
        LET items == resp.body.array
        IN  /\ resp.status = 200
            /\ Len(items) = (IF Len(SelectedWindow) < SLOT_COUNT
                             THEN Len(SelectedWindow) ELSE SLOT_COUNT)
            /\ \A i \in 1..Len(items) :
                  /\ items[i].url = UrlOf(RelPathOf(SelectedWindow[i]))
                  /\ (~Readable(items[i]) /\ ~IsSome(EnabledSlots[i].h)) =>
                        IsNearest(items[i].h,
                                  FracDiv(FracMul(WidthIn(EnabledSlots[i]), FracOfInt(400)),
                                          FracOfInt(600)))

----------------------------------------------------------------------------
(* Claims about failures *)

\* 23 definitions
ShortSlots == SubSeq(GridSlots, 1, SLOT_COUNT - 1)

\* 25 definitions, all switched on, the last one without row and col
UnplacedSlots ==
    GridSlots \o <<RawSlot(None, JsonAbsent, JsonAbsent, None, None, None, None, FALSE, TRUE)>>

\* 24 definitions, the first one with "row": "abc"
MisplacedSlots ==
    [i \in 1..SLOT_COUNT |->
        IF i = 1 THEN RawSlot(None, JsonString("abc"), JsonNumber(0, 1), None, None, None, None, FALSE, TRUE)
        ELSE GridSlots[i]]

\* 24 definitions, the first one with "row": null and "col": null, which
\* Number() turns into 0 and 0
NullPlacedSlots ==
    [i \in 1..SLOT_COUNT |->
        IF i = 1 THEN RawSlot(None, JsonNull, JsonNull, None, None, None, None, FALSE, TRUE)
        ELSE GridSlots[i]]

SlotErrorFiles == {[exists |-> FALSE, slots |-> <<>>],
                   [exists |-> TRUE, slots |-> ShortSlots],
                   [exists |-> TRUE, slots |-> UnplacedSlots],
                   [exists |-> TRUE, slots |-> MisplacedSlots],
                   [exists |-> TRUE, slots |-> NullPlacedSlots],
                   [exists |-> TRUE, slots |-> SparseSlots],
                   [exists |-> TRUE, slots |-> GridSlots]}

\* the server started with any of these slot files, on an uploads directory
\* that does not exist yet or on the small one
InitSlotErrors ==
    /\ pin = <<>>
    /\ pres = NoCall
    /\ \E d \in InitialDisks : uploadDirMade = d.made /\ disk = d.disk
    /\ readdirRev = FALSE
    /\ slotFile \in SlotErrorFiles
    /\ trash = <<>>
    /\ selection = None
    /\ sessions = <<>>
    /\ nextToken = 1
    /\ nextTrashId = 3
    /\ now = StartTime
    /\ resp = NoResp
    /\ beforeDelete = None
    /\ request = NoRequest
    /\ PagesLoaded

SpecSlotErrors == InitSlotErrors /\ [][NextSlots]_vars

\* the value is a finite number once Number() has been applied to it
FiniteNumber(v) ==
    \/ v.kind \in {"number", "null", "boolean"}
    \/ v.kind = "string" /\ v.text \in {"", "1", "-1", "1.5"}
    \/ v.kind = "array" /\ v.elems = <<>>

\* slot.json is missing, holds fewer than 24 definitions, holds a definition
\* switched on without a finite row and col, or holds fewer than 24
\* definitions switched on
BrokenSlotConfig ==
    LET raws == slotFile.slots
        on == {i \in 1..Len(raws) : ~raws[i].disabled /\ raws[i].enabled}
    IN  \/ ~slotFile.exists
        \/ Len(raws) < SLOT_COUNT
        \/ \E i \in on : ~FiniteNumber(raws[i].row) \/ ~FiniteNumber(raws[i].col)
        \/ Cardinality(on) < SLOT_COUNT

\* the images on disk
ImagesOnDisk == {i \in 1..Len(disk) : IsPngFile(disk[i])}

----------------------------------------------------------------------------
(* Claims about sessions *)

\* time passes: the lifetime of a session, then single milliseconds
Sleep ==
    /\ \E d \in {1, SESSION_TTL_MS} :
          /\ d = 1 => now >= StartTime + SESSION_TTL_MS
          /\ now + d <= StartTime + SESSION_TTL_MS + MaxNaps
          /\ now' = now + d
    /\ resp' = NoResp
    /\ request' = NoRequest
    /\ UNCHANGED <<pageVars, pin, pres, uploadDirMade, disk, readdirRev, slotFile, trash, selection,
                   sessions, nextToken, nextTrashId, beforeDelete>>

\* the process ends and is started again: the session Map is new, the files
\* are as they were
Restart ==
    /\ sessions' = <<>>
    /\ resp' = Resp("restart", 0, <<>>)
    /\ request' = NoRequest
    /\ UNCHANGED <<pageVars, pin, pres, uploadDirMade, disk, readdirRev, slotFile, trash, selection,
                   nextToken, nextTrashId, now, beforeDelete>>

\* POST /api/login where several sessions are created
LoginAgain(body) == handleLogin(body, MaxSessions)

\* an uploads directory with one image
TinyDisk == <<FileEntry(<<>>, PaintName("1"), 2, PngData(600, 400))>>

\* the server started on that directory
InitSessions ==
    /\ pin = <<>>
    /\ pres = NoCall
    /\ uploadDirMade = TRUE
    /\ disk = TinyDisk
    /\ readdirRev = FALSE
    /\ slotFile = [exists |-> TRUE, slots |-> GridSlots]
    /\ trash = <<>>
    /\ selection = None
    /\ sessions = <<>>
    /\ nextToken = 1
    /\ nextTrashId = MaxTrashed + 2
    /\ now = StartTime
    /\ resp = NoResp
    /\ beforeDelete = None
    /\ request = NoRequest
    /\ PagesLoaded

NextSessions ==
    \/ \E b \in LoginBodies : LoginAgain(b)
    \/ \E c \in Cookies : PostLogout(c)
    \/ \E c \in Cookies : GetList(c)
    \/ \E c \in Cookies : GetFolders(c)
    \/ \E c \in Cookies : GetTrash(c)
    \/ \E c \in Cookies : GetBatches(c)
    \/ \E c \in Cookies : PostSelect(c)
    \/ \E c \in Cookies : PostRestore(c)
    \/ \E c \in Cookies : Delete(c)
    \/ Sleep
    \/ Restart

SpecSessions == InitSessions /\ [][NextSessions]_vars

\* the exchanges of the endpoints behind requireAdmin
AdminOps == {"list", "folders", "trash", "batches", "select", "restore", "delete"}

\* the cookie names a session of the Map whose expiry has not passed
LiveToken(cookie) == cookie \in DOMAIN sessions /\ now <= sessions[cookie]

C23_TokenLifetime ==
    [][/\ resp'.op \in AdminOps => (resp'.status # 401 <=> LiveToken(request'.cookie))
       /\ \A t \in (DOMAIN sessions') \ (DOMAIN sessions) :
             /\ resp'.op = "login" /\ resp'.status = 200 /\ resp'.body = [ok |-> TRUE]
             /\ sessions'[t] = now + 12 * 60 * 60 * 1000
             /\ t = nextToken
       /\ \A t \in (DOMAIN sessions') \cap (DOMAIN sessions) : sessions'[t] = sessions[t]
       /\ nextToken' >= nextToken
       /\ \A t \in DOMAIN sessions' : t < nextToken'
       /\ resp'.op = "logout" => request'.cookie \notin DOMAIN sessions'
       /\ (resp'.op \in AdminOps /\ resp'.status = 401) => request'.cookie \notin DOMAIN sessions'
       /\ resp'.op = "restart" => sessions' = <<>>]_vars

\* the second token issued is accepted in the last millisecond of its
\* lifetime, after the first one has gone from the Map
C23_Witness ==
    /\ resp.op = "trash"
    /\ resp.status = 200
    /\ request.cookie = 2
    /\ 2 \in DOMAIN sessions
    /\ now = sessions[2]
    /\ 1 \notin DOMAIN sessions

\* C24 as stated: with an admin password configured, every login whose
\* password differs from the configured one, whatever string it is, is
\* answered 401 and creates no session; a session is created only when the
\* password equals the configured one
C24_WrongPasswordIs401 ==
    [][(resp'.op = "login" /\ request'.body = "json") =>
          /\ resp'.arg.password # <<"s", "e", "c", "r", "e", "t">> =>
                (resp'.status = 401 /\ sessions' = sessions)
          /\ DOMAIN sessions' # DOMAIN sessions =>
                resp'.arg.password = <<"s", "e", "c", "r", "e", "t">>]_vars

\* C25 as stated: an upload whose JSON body has no dataUrl, a dataUrl that is
\* no string, or one that does not match data:image/png;base64,<non-empty
\* payload> is answered 400 and creates no file in the upload directory
C25_BadDataUrlIs400 ==
    [][(/\ resp'.op = "upload"
        /\ resp'.arg.json # "invalid"
        /\ \/ resp'.arg.dataUrl.kind # "string"
           \/ Len(resp'.arg.dataUrl.text) < 4
           \/ SubSeq(resp'.arg.dataUrl.text, 1, 3) # <<"data:image/", "png", ";base64,">>)
       => (resp'.status = 400 /\ disk' = disk)]_vars

----------------------------------------------------------------------------
(* Uploads received chunk by chunk *)

\* a request that does nothing on destroy
destroy_Nothing(req) == req

\* req.destroy(): the stream hands the handler no more chunks and no end
destroy(req) == [req EXCEPT !.state = "destroyed"]

\* the sizes of the chunks: half the cap, and one character once the body
\* is as long as the cap
ChunkSizes == {MAX_BODY_SIZE \div 2, 1}

\* the "data" listener of handleUpload for a chunk of n characters, the first
\* chunk of a request opening it
UploadChunk(n) ==
    LET req == IF request.state = "open" THEN request
               ELSE [cookie |-> 0, body |-> "unread", received |-> 0, answers |-> 0,
                     state |-> "open", inflight |-> 0]
        got == [req EXCEPT !.received = req.received + n]
    IN  /\ n = 1 => req.received >= MAX_BODY_SIZE
        /\ IF got.received > MAX_BODY_SIZE
           THEN /\ \E late \in 0..MaxInFlight :
                      request' = destroy([got EXCEPT !.body = "toolarge",
                                                     !.answers = got.answers + 1,
                                                     !.inflight = late])
                /\ resp' = Resp("upload", 413, <<>>)
           ELSE /\ request' = got
                /\ resp' = Resp("upload", 0, <<>>)
        /\ UNCHANGED <<pageVars, pin, pres, uploadDirMade, disk, readdirRev, slotFile, trash, selection,
                       sessions, nextToken, nextTrashId, now, beforeDelete>>

\* a chunk that was on its way reaches a destroyed request: no "data" event
LateChunk ==
    /\ request.state = "destroyed"
    /\ request.inflight > 0
    /\ request' = [request EXCEPT !.inflight = request.inflight - 1]
    /\ UNCHANGED <<pageVars, pin, pres, uploadDirMade, disk, readdirRev, slotFile, trash, selection,
                   sessions, nextToken, nextTrashId, now, resp, beforeDelete>>

\* the "end" listener of handleUpload
UploadEnd(body) ==
    /\ request.state = "open"
    /\ handleUpload(body, MaxBurst)
    /\ request' = [request EXCEPT !.body = IF body.json = "invalid" THEN "badjson" ELSE "json",
                                  !.answers = request.answers + 1,
                                  !.state = "done"]

InitStream ==
    /\ pin = <<>>
    /\ pres = NoCall
    /\ \E d \in InitialDisks : uploadDirMade = d.made /\ disk = d.disk
    /\ readdirRev = FALSE
    /\ slotFile = [exists |-> TRUE, slots |-> GridSlots]
    /\ trash = <<>>
    /\ selection = None
    /\ sessions = <<>>
    /\ nextToken = 1
    /\ nextTrashId = 3
    /\ now = StartTime
    /\ resp = NoResp
    /\ beforeDelete = None
    /\ request = NoRequest
    /\ PagesLoaded

NextStream ==
    \/ \E n \in ChunkSizes : UploadChunk(n)
    \/ LateChunk
    \/ \E b \in UploadBodies : UploadEnd(b)
    \/ Tick

SpecStream == InitStream /\ [][NextStream]_vars

----------------------------------------------------------------------------
(* Claims about request bodies and paths *)

\* C27 as stated: login, delete, restore and select answer 413 when the body
\* exceeds the 10 MB cap, and change no session, manifest or selection state
C27_OversizeBodyIs413 ==
    [][(request'.body = "toolarge" /\ resp'.op \in {"login", "delete", "restore", "select"}) =>
          /\ resp'.status = 413
          /\ sessions' = sessions
          /\ trash' = trash
          /\ selection' = selection]_vars

\* C28 as stated: a POST to upload, login, delete, restore or select whose
\* body is not valid JSON is answered 400, not 500, and changes no persisted
\* or session state
C28_InvalidJsonIs400 ==
    [][(/\ request'.body = "badjson"
        /\ resp'.op \in {"upload", "login", "delete", "restore", "select"}) =>
          /\ resp'.status = 400
          /\ sessions' = sessions
          /\ trash' = trash
          /\ selection' = selection
          /\ disk' = disk]_vars

\* fsp.readFile on a resolved path that is UPLOAD_DIR or below it: "ok", or
\* the code of the error
ReadFile(resolved) ==
    LET segs == Split(Relative(UPLOAD_DIR, resolved))
        kind == IF resolved = UPLOAD_DIR THEN "dir"
                ELSE IF Len(segs) = 1 THEN KindAt(<<>>, segs[1])
                ELSE KindAt(segs[1], segs[2])
    IN  IF Access(resolved) # "ok" THEN Access(resolved)
        ELSE IF kind = "dir" THEN "EISDIR"
        ELSE "ok"

\* the status serveStatic sends
serveStatic(filePath) ==
    IF ReadFile(filePath) = "ok" THEN 200
    ELSE IF ReadFile(filePath) = "ENOENT" THEN 404
    ELSE 500

\* what follows "/uploads/" in the path of a GET: an image, a directory, a
\* missing file, a file below a file, an encoded "../", an absolute path and
\* a stray percent sign
UploadsTargets ==
    {PaintName("1"), Batch1, PaintName("none"),
     PaintName("1") \o <<"/", "x">>,
     <<".", ".", "%2F">> \o PaintName("1"),
     <<"/", "etc", "/", "passwd">>,
     <<"%">>}

\* GET /uploads/<target>
GetUploads(target) ==
    /\ LET filePath == SafeUploadsPath(target)
       IN  resp' = RespTo("uploads", [path |-> target],
                          IF filePath.ok THEN serveStatic(filePath.val) ELSE 400, <<>>)
    /\ request' = Request(0, "none")
    /\ UNCHANGED <<pageVars, pin, pres, uploadDirMade, disk, readdirRev, slotFile, trash, selection,
                   sessions, nextToken, nextTrashId, now, beforeDelete>>

\* the requests that name a path below the uploads directory, the login,
\* and the requests that show and undo what a delete did
NextTargets ==
    \/ \E b \in PlainLoginBodies : PostLogin(b)
    \/ \E c \in Cookies : Delete(c)
    \/ \E t \in UploadsTargets : GetUploads(t)
    \/ \E c \in Cookies : GetTrash(c)
    \/ \E c \in Cookies : PostRestore(c)

SpecTargets == Init /\ [][NextTargets]_vars

\* C29 as stated: a request whose target path the sandbox rejects (an
\* absolute path, or a string that cannot be URL-decoded) is answered 400,
\* for GET /uploads/<path> as for DELETE|POST /api/delete, and the trash
\* manifest is unchanged
C29_RejectedPathIs400 ==
    [][(/\ resp'.op \in {"uploads", "delete"}
        /\ resp'.arg # None
        /\ resp'.arg.path # <<>>
        /\ \/ Head(resp'.arg.path) = "/"
           \/ \E i \in 1..Len(resp'.arg.path) : resp'.arg.path[i] = "%") =>
          (resp'.status = 400 /\ trash' = trash)]_vars

----------------------------------------------------------------------------
(* Claims about where uploads are written *)

\* the batch folders of a directory listing
BatchFolders(d) ==
    {d[i].name : i \in {j \in 1..Len(d) : d[j].kind = "dir" /\ d[j].dir = <<>>
                                            /\ isBatchDirName(d[j].name)}}

\* the PNG files a folder holds
PngsIn(d, folder) == {i \in 1..Len(d) : IsPngFile(d[i]) /\ d[i].dir = folder}

\* C30 as stated: every uploaded file is written into a batch folder (the
\* highest-numbered one, or a new one when that is full or none exists), so
\* no batch folder holds more than 24 images and no upload lands directly in
\* the upload root
C30_UploadsFillBatchFolders ==
    [][disk' # disk =>
          /\ \A i \in 1..Len(disk') :
                (disk'[i].kind = "file" /\ disk'[i] \notin {disk[j] : j \in 1..Len(disk)}) =>
                    (disk'[i].dir # <<>> /\ disk'[i].dir \in BatchFolders(disk'))
          /\ \A f \in BatchFolders(disk') : Cardinality(PngsIn(disk', f)) <= 24]_vars

\* C30, amended: every uploaded file is written directly into the upload
\* root, under the name the response gives; an upload creates no folder and
\* changes nothing in a batch folder, and nothing but an upload answered 200
\* changes the directory
C30_UploadsLandInRoot ==
    [][/\ disk' # disk =>
            /\ resp'.op = "upload" /\ resp'.status = 200
            /\ Len(disk') = Len(disk) + 1
            /\ SubSeq(disk', 1, Len(disk)) = disk
            /\ disk'[Len(disk')].kind = "file"
            /\ disk'[Len(disk')].dir = <<>>
            /\ disk'[Len(disk')].name = resp'.body.path
            /\ BatchFolders(disk') = BatchFolders(disk)
            /\ \A f \in BatchFolders(disk) : PngsIn(disk', f) = PngsIn(disk, f)
       /\ (resp'.op = "upload" /\ resp'.status = 200 /\ resp' # resp) => disk' # disk]_vars

\* an upload has been answered 200 and its file stands in the upload root,
\* beside the batch folder batch-0001 and its one image
C30_Witness ==
    /\ resp.op = "upload"
    /\ resp.status = 200
    /\ \E i \in Uploaded : disk[i].dir = <<>> /\ disk[i].name = resp.body.path
    /\ BatchFolders(disk) = {<<"batch-", "0001">>}
    /\ Cardinality(PngsIn(disk, <<"batch-", "0001">>)) = 1

----------------------------------------------------------------------------
(* Handlers that overlap: a handler runs up to its next await, and the      *)
(* other handlers run in between                                            *)

\* handlers begun in one run
MaxTasks == 2

\* a handler suspended at an await: the operation, the await it waits at
\* ("done" once it answered), what the request named, the manifest it read
\* and changed in memory, the entry it returns, the file name it probes, the
\* counter of the probe, the bytes to write, and the answer it sent
Task(op, pc, arg) ==
    [op |-> op, pc |-> pc, arg |-> arg, list |-> <<>>, entry |-> None,
     candidate |-> <<>>, counter |-> 0, data |-> NoData, status |-> 0, body |-> <<>>]

\* send(res, status, body) at the end of handler i
Answered(i, status, body) ==
    [tasks EXCEPT ![i].pc = "done", ![i].status = status, ![i].body = body]

\* fsp.writeFile(path.join(UPLOAD_DIR, name), data): an existing file is
\* truncated and rewritten, else the file is created
WriteFile(name, mtime, data) ==
    LET at == {k \in 1..Len(disk) : disk[k].dir = <<>> /\ disk[k].name = name}
    IN  IF at = {} THEN Append(disk, FileEntry(<<>>, name, mtime, data))
        ELSE [k \in 1..Len(disk) |->
                 IF k \in at THEN [disk[k] EXCEPT !.mtime = mtime, !.data = data]
                 ELSE disk[k]]

\* three images in the upload root
OverlapDisk ==
    <<FileEntry(<<>>, PaintName("1"), 2, PngData(600, 400)),
      FileEntry(<<>>, PaintName("2"), 3, PngData(600, 400)),
      FileEntry(<<>>, PaintName("3"), 3, PngData(600, 400))>>

\* what the overlapping deletes name: two images, a missing file and a path
\* outside the uploads directory
OverlapTargets ==
    {PaintName("1"), PaintName("2"), PaintName("none"), <<"/", "etc", "/", "passwd">>}

\* the ids the overlapping restores name: none, the entry of the manifest, an
\* unknown one
OverlapIds == {None, Some(1), Some(9)}

\* the uploads that overlap: two drawings and a body without dataUrl
OverlapBodies ==
    {UploadBody("object", "string", PngDataUrl(<<"iVBOR">>), PngData(300, 400)),
     UploadBody("object", "string", PngDataUrl(<<"iVBOS">>), PngData(500, 400)),
     UploadBody("object", "absent", <<>>, NoData)}

\* DELETE /api/delete?path=target, up to the await of fsp.access
BeginDelete(cookie, target) ==
    /\ Len(tasks) < MaxTasks
    /\ request' = Request(cookie, "none")
    /\ \/ Refuse("delete", cookie) /\ UNCHANGED tasks
       \/ /\ HasSession(cookie)
          /\ UNCHANGED sessions
          /\ IF ~SafeUploadsPath(target).ok
             THEN /\ resp' = RespTo("delete", [path |-> target], 500, <<>>)
                  /\ UNCHANGED tasks
             ELSE /\ tasks' = Append(tasks, Task("delete", "access", target))
                  /\ UNCHANGED resp
    /\ UNCHANGED <<overlay, painter, stickers, pin, pres, uploadDirMade, disk, readdirRev,
                   slotFile, trash, selection, nextToken, nextTrashId, now, beforeDelete>>

\* markAsTrashed from the result of fsp.access to the await of readTrashList
DeleteAccess(i) ==
    /\ tasks[i].op = "delete" /\ tasks[i].pc = "access"
    /\ LET found == Access(SafeUploadsPath(tasks[i].arg).val)
       IN  IF found = "ENOENT"
           THEN /\ tasks' = Answered(i, 404, <<>>)
                /\ resp' = RespTo("delete", [path |-> tasks[i].arg], 404, <<>>)
           ELSE IF found # "ok"
           THEN /\ tasks' = Answered(i, 500, <<>>)
                /\ resp' = RespTo("delete", [path |-> tasks[i].arg], 500, <<>>)
           ELSE /\ tasks' = [tasks EXCEPT ![i].pc = "read"]
                /\ UNCHANGED resp
    /\ UNCHANGED <<overlay, painter, stickers, pin, pres, uploadDirMade, disk, readdirRev,
                   slotFile, trash, selection, sessions, nextToken, nextTrashId, now,
                   beforeDelete, request>>

\* markAsTrashed from the manifest readTrashList returned to the await of
\* writeTrashList, or to the answer when the path has an entry
DeleteRead(i) ==
    /\ tasks[i].op = "delete" /\ tasks[i].pc = "read"
    /\ LET normalized == Relative(UPLOAD_DIR, SafeUploadsPath(tasks[i].arg).val)
           marked == markAsTrashed(trash, normalized, nextTrashId, now)
       IN  IF marked.list = trash
           THEN /\ tasks' = Answered(i, 200, [path |-> marked.entry.path])
                /\ resp' = RespTo("delete", [path |-> tasks[i].arg], 200,
                                  [path |-> marked.entry.path])
                /\ UNCHANGED nextTrashId
           ELSE /\ tasks' = [tasks EXCEPT ![i].pc = "write", ![i].list = marked.list,
                                          ![i].entry = Some(marked.entry)]
                /\ nextTrashId' = nextTrashId + 1
                /\ UNCHANGED resp
    /\ UNCHANGED <<overlay, painter, stickers, pin, pres, uploadDirMade, disk, readdirRev,
                   slotFile, trash, selection, sessions, nextToken, now, beforeDelete,
                   request>>

\* POST /api/restore, up to the await of readJsonBody
BeginRestore(cookie, id) ==
    /\ Len(tasks) < MaxTasks
    /\ \/ Refuse("restore", cookie) /\ request' = Request(cookie, "unread") /\ UNCHANGED tasks
       \/ /\ HasSession(cookie)
          /\ UNCHANGED <<sessions, resp>>
          /\ request' = Request(cookie, "json")
          /\ tasks' = Append(tasks, Task("restore", "body", id))
    /\ UNCHANGED <<overlay, painter, stickers, pin, pres, uploadDirMade, disk, readdirRev,
                   slotFile, trash, selection, nextToken, nextTrashId, now, beforeDelete>>

\* the restore route from the parsed body to the await of readTrashList
RestoreBody(i) ==
    /\ tasks[i].op = "restore" /\ tasks[i].pc = "body"
    /\ IF ~IsSome(tasks[i].arg)
       THEN /\ tasks' = Answered(i, 400, <<>>)
            /\ resp' = Resp("restore", 400, <<>>)
       ELSE /\ tasks' = [tasks EXCEPT ![i].pc = "read"]
            /\ UNCHANGED resp
    /\ UNCHANGED <<overlay, painter, stickers, pin, pres, uploadDirMade, disk, readdirRev,
                   slotFile, trash, selection, sessions, nextToken, nextTrashId, now,
                   beforeDelete, request>>

\* restoreTrashEntry from the manifest readTrashList returned to the await of
\* writeTrashList, or to the answer when no entry has the id
RestoreRead(i) ==
    /\ tasks[i].op = "restore" /\ tasks[i].pc = "read"
    /\ LET r == restoreTrashEntry(trash, tasks[i].arg[1])
       IN  IF ~r.found
           THEN /\ tasks' = Answered(i, 404, <<>>)
                /\ resp' = RespTo("restore", [id |-> tasks[i].arg[1]], 404, <<>>)
           ELSE /\ tasks' = [tasks EXCEPT ![i].pc = "write", ![i].list = r.list,
                                          ![i].entry = r.entry]
                /\ UNCHANGED resp
    /\ UNCHANGED <<overlay, painter, stickers, pin, pres, uploadDirMade, disk, readdirRev,
                   slotFile, trash, selection, sessions, nextToken, nextTrashId, now,
                   beforeDelete, request>>

\* writeTrashList(list) of handler i, and the answer that follows it
WriteTrashList(i) ==
    /\ tasks[i].op \in {"delete", "restore"} /\ tasks[i].pc = "write"
    /\ trash' = tasks[i].list
    /\ tasks' = Answered(i, 200, [path |-> tasks[i].entry[1].path])
    /\ resp' = RespTo(tasks[i].op,
                      IF tasks[i].op = "delete" THEN [path |-> tasks[i].arg]
                      ELSE [id |-> tasks[i].arg[1]],
                      200, [path |-> tasks[i].entry[1].path])
    /\ UNCHANGED <<overlay, painter, stickers, pin, pres, uploadDirMade, disk, readdirRev,
                   slotFile, selection, sessions, nextToken, nextTrashId, now, beforeDelete,
                   request>>

\* POST /api/upload: the "end" handler up to the first fsp.access of
\* uniqueFilename
BeginUpload(body) ==
    /\ Len(tasks) < MaxTasks
    /\ request' = Request(0, "json")
    /\ IF body.dataUrl.kind # "string" \/ body.dataUrl.text = <<>>
          \/ ~MatchesPngDataUrl(body.dataUrl.text)
       THEN /\ resp' = RespTo("upload", UploadArg(body), 400, <<>>)
            /\ UNCHANGED tasks
       ELSE /\ tasks' = Append(tasks,
                   [Task("upload", "probe", UploadArg(body)) EXCEPT
                       !.candidate = <<"paint-">> \o formatKstTimestamp(now) \o DotPng,
                       !.counter = 1,
                       !.data = body.data])
            /\ UNCHANGED resp
    /\ UNCHANGED <<overlay, painter, stickers, pin, pres, uploadDirMade, disk, readdirRev,
                   slotFile, trash, selection, sessions, nextToken, nextTrashId, now,
                   beforeDelete>>

\* uniqueFilename from the result of one fsp.access to the next await: the
\* next fsp.access, or fsp.writeFile when the candidate is free
UploadProbe(i) ==
    /\ tasks[i].op = "upload" /\ tasks[i].pc = "probe"
    /\ LET baseName == <<tasks[i].candidate[1], tasks[i].candidate[2]>> \o DotPng
           ext == Extname(baseName)
           base == SliceOffEnd(baseName, Len(ext))
           found == Access(UPLOAD_DIR \o Slash \o tasks[i].candidate)
       IN  IF found = "ENOENT"
           THEN /\ tasks' = [tasks EXCEPT ![i].pc = "write"]
                /\ UNCHANGED resp
           ELSE IF found = "ok"
           THEN /\ tasks' = [tasks EXCEPT
                                ![i].candidate = base \o <<"-", ToString(tasks[i].counter)>> \o ext,
                                ![i].counter = tasks[i].counter + 1]
                /\ UNCHANGED resp
           ELSE /\ tasks' = Answered(i, 500, <<>>)
                /\ resp' = RespTo("upload", tasks[i].arg, 500, <<>>)
    /\ UNCHANGED <<overlay, painter, stickers, pin, pres, uploadDirMade, disk, readdirRev,
                   slotFile, trash, selection, sessions, nextToken, nextTrashId, now,
                   beforeDelete, request>>

\* handleUpload from the end of fsp.writeFile to the answer
UploadWrite(i) ==
    /\ tasks[i].op = "upload" /\ tasks[i].pc = "write"
    /\ disk' = WriteFile(tasks[i].candidate, now, tasks[i].data)
    /\ tasks' = Answered(i, 200, ListItem(tasks[i].candidate))
    /\ resp' = RespTo("upload", tasks[i].arg, 200, ListItem(tasks[i].candidate))
    /\ UNCHANGED <<overlay, painter, stickers, pin, pres, uploadDirMade, readdirRev,
                   slotFile, trash, selection, sessions, nextToken, nextTrashId, now,
                   beforeDelete, request>>

\* an administrator is logged in, three images are stored and the third one
\* is in the trash
InitOverlap ==
    /\ pin = <<>>
    /\ pres = NoCall
    /\ uploadDirMade = TRUE
    /\ disk = OverlapDisk
    /\ readdirRev = FALSE
    /\ slotFile = [exists |-> TRUE, slots |-> GridSlots]
    /\ trash = <<TrashEntry(1, PaintName("3"), 1)>>
    /\ selection = None
    /\ sessions = [t \in {1} |-> StartTime + SESSION_TTL_MS]
    /\ nextToken = 2
    /\ nextTrashId = 2
    /\ now = StartTime
    /\ resp = NoResp
    /\ beforeDelete = None
    /\ request = NoRequest
    /\ PagesLoaded

NextOverlap ==
    \/ \E cookie \in {0, 1}, target \in OverlapTargets : BeginDelete(cookie, target)
    \/ \E cookie \in {0, 1}, id \in OverlapIds : BeginRestore(cookie, id)
    \/ \E body \in OverlapBodies : BeginUpload(body)
    \/ \E i \in 1..Len(tasks) : DeleteAccess(i)
    \/ \E i \in 1..Len(tasks) : DeleteRead(i)
    \/ \E i \in 1..Len(tasks) : RestoreBody(i)
    \/ \E i \in 1..Len(tasks) : RestoreRead(i)
    \/ \E i \in 1..Len(tasks) : WriteTrashList(i)
    \/ \E i \in 1..Len(tasks) : UploadProbe(i)
    \/ \E i \in 1..Len(tasks) : UploadWrite(i)
    \/ Tick

SpecOverlap == InitOverlap /\ [][NextOverlap]_vars

\* the manifest the overlapping handlers start from
OverlapTrash == <<TrashEntry(1, PaintName("3"), 1)>>

\* the paths of a manifest, in its order
PathsOf(list) == [k \in 1..Len(list) |-> list[k].path]

\* the manifest after the delete and restore requests of the handlers named
\* by order were served one after another, each to its end, from list
RECURSIVE InTurn(_, _)
InTurn(order, list) ==
    IF order = <<>> THEN list
    ELSE LET t == tasks[Head(order)]
         IN  InTurn(Tail(order),
                    IF t.op = "delete" THEN handleDelete(t.arg, list, 0, 0).list
                    ELSE IF t.op = "restore" /\ IsSome(t.arg)
                    THEN restoreTrashEntry(list, t.arg[1]).list
                    ELSE list)

\* the orders in which the handlers begun can be served one after another
Orders ==
    {o \in [1..Len(tasks) -> 1..Len(tasks)] : \A a, b \in 1..Len(tasks) : a # b => o[a] # o[b]}

AllAnswered == tasks # <<>> /\ \A i \in 1..Len(tasks) : tasks[i].pc = "done"

\* C31: once overlapping delete and restore requests are all answered, the
\* manifest lists the paths that some order of serving the same requests one
\* after another leaves in it; two deletes of different images answered 200
\* leave both in it, and a restore answered 200 is not undone by a delete of
\* another image that overlapped it
C31_OverlapIsSomeOrder ==
    AllAnswered => PathsOf(trash) \in {PathsOf(InTurn(o, OverlapTrash)) : o \in Orders}

\* the uploads among the handlers that were answered 200
UploadsStored ==
    {i \in 1..Len(tasks) : tasks[i].op = "upload" /\ tasks[i].pc = "done" /\ tasks[i].status = 200}

\* C32: once overlapping uploads are all answered, the uploads answered 200
\* name different files, each of these files holds the bytes of its upload,
\* and the upload directory has gained one file per upload answered 200
C32_OverlappingUploadsKeepTheirFiles ==
    AllAnswered =>
        /\ \A i, j \in UploadsStored : i # j => tasks[i].body.filename # tasks[j].body.filename
        /\ \A i \in UploadsStored :
              \E k \in 1..Len(disk) : /\ disk[k].dir = <<>>
                                      /\ disk[k].name = tasks[i].body.filename
                                      /\ disk[k].data = tasks[i].data
        /\ Len(disk) = Len(OverlapDisk) + Cardinality(UploadsStored)

----------------------------------------------------------------------------
(* getPngSize on files of any content and length *)

\* the lengths, in bytes, of the files getPngSize is given
FileSizes == {0, 3, 8, 16, 20, 23, 24, 30}

\* the 32-bit values found at offsets 16 and 20
HeaderValues == {0, 1, 257, 300, 65536}

\* a file: whether bytes 0-3 and bytes 4-7 are those of the PNG signature (as
\* far as the file reaches), the big-endian values its bytes 16-19 and 20-23
\* hold (as far as it reaches), and its length
PngFiles ==
    [sigHi : BOOLEAN, sigLo : BOOLEAN, width : HeaderValues, height : HeaderValues,
     size : FileSizes]

\* buffer.readUInt32BE(offset) after handle.read(buffer, 0, 24, 0) of a file
\* of size bytes into Buffer.alloc(24): the bytes past the end stay zero
WordRead(value, offset, size) ==
    LET have == IF size >= offset + 4 THEN 4 ELSE IF size <= offset THEN 0 ELSE size - offset
        lost == 256 ^ (4 - have)
    IN  IF have = 0 THEN 0 ELSE (value \div lost) * lost

\* the 24 bytes getPngSize works on
BufferOf(file) ==
    [sigHi |-> file.sigHi /\ file.size >= 4,
     sigLo |-> file.sigLo /\ file.size >= 8,
     width |-> WordRead(file.width, 16, file.size),
     height |-> WordRead(file.height, 20, file.size)]

CallGetPngSize ==
    /\ pres.fn = "none"
    /\ pres' = LET size == getPngSize(BufferOf(pin))
               IN  IF IsSome(size) THEN [fn |-> "getPngSize", ok |-> TRUE, val |-> size[1]]
                   ELSE [fn |-> "getPngSize", ok |-> FALSE, val |-> <<>>]
    /\ UNCHANGED <<pageVars, pin, serverVars>>

InitPng ==
    /\ pin \in PngFiles
    /\ pres = NoCall
    /\ uploadDirMade = FALSE
    /\ disk = <<>>
    /\ readdirRev = FALSE
    /\ slotFile = [exists |-> FALSE, slots |-> <<>>]
    /\ trash = <<>>
    /\ selection = None
    /\ sessions = <<>>
    /\ nextToken = 1
    /\ nextTrashId = 1
    /\ now = StartTime
    /\ resp = NoResp
    /\ beforeDelete = None
    /\ request = NoRequest
    /\ PagesLoaded

NextPng == CallGetPngSize

SpecPng == InitPng /\ [][NextPng]_vars

\* C33: getPngSize returns a size exactly for a file of at least 24 bytes
\* that begins with all 8 bytes of the PNG signature and holds non-zero
\* values at offsets 16 and 20, and the size it returns is these two values;
\* for every other file it fails
C33_FullSignatureAndSize ==
    pres.fn = "getPngSize" =>
        /\ pres.ok <=> (/\ pin.size >= 24
                        /\ pin.sigHi /\ pin.sigLo
                        /\ pin.width # 0 /\ pin.height # 0)
        /\ pres.ok => pres.val = [width |-> pin.width, height |-> pin.height]

----------------------------------------------------------------------------
(* uniqueFilename and names without an extension *)

\* the part of a name before its extension: name = StemOf(name) \o Extname(name)
StemOf(name) == SubSeq(name, 1, Len(name) - Len(Extname(name)))

\* the first name absent from the directory among name, stem-1ext, stem-2ext, ...
FirstFree(name) ==
    IF name \notin NamesInDir THEN name
    ELSE LET free == {k \in 1..(Len(disk) + 1) :
                         Numbered(StemOf(name), Extname(name), k) \notin NamesInDir}
         IN  Numbered(StemOf(name), Extname(name), CHOOSE k \in free : \A m \in free : k <= m)

\* C34: uniqueFilename(name, dir) returns the first name absent from dir in
\* the sequence name, stem-1ext, stem-2ext, ..., where name is stem followed
\* by ext and ext may be empty, for names with and without an extension
C34_FirstFreeOfSequence ==
    pres.fn = "unique" => pres.val = FirstFree(pin)

----------------------------------------------------------------------------
(* The rectangles of one layout *)

\* slot.json is valid, no slot switched on has an explicit x, y, w or h, the
\* columns are 0..5 and no two slots switched on share row and column
PlainDistinctGrid ==
    /\ ValidSlotConfig
    /\ \A i \in 1..Len(EnabledSlots) :
          /\ ~IsSome(EnabledSlots[i].x) /\ ~IsSome(EnabledSlots[i].y)
          /\ ~IsSome(EnabledSlots[i].w) /\ ~IsSome(EnabledSlots[i].h)
          /\ EnabledSlots[i].col.num \in {FracOfInt(c) : c \in 0..(COLUMNS - 1)}
    /\ \A i, j \in 1..Len(EnabledSlots) :
          i # j => \/ EnabledSlots[i].row.num # EnabledSlots[j].row.num
                   \/ EnabledSlots[i].col.num # EnabledSlots[j].col.num

\* two rectangles share a point of their interiors
Overlap(a, b) ==
    /\ a.x < b.x + b.w /\ b.x < a.x + a.w
    /\ a.y < b.y + b.h /\ b.y < a.y + a.h

\* C35: over a configuration without explicit x, y, w, h and with distinct
\* (row, col), col in 0..5, no two rectangles of one GET /api/slots response
\* overlap, whatever the native sizes of the images
C35_RectanglesDisjoint ==
    (resp.op = "slots" /\ resp.status = 200 /\ PlainDistinctGrid) =>
        \A i, j \in 1..Len(resp.body.array) :
            i # j => ~Overlap(resp.body.array[i], resp.body.array[j])

----------------------------------------------------------------------------
(* A layout is never empty while images are live *)

\* the images that are not in the trash
LiveImages == VisibleOf(getOrderedImages, trash)

\* C36: whenever an image that is not trashed exists and the slot
\* configuration is valid, GET /api/slots answers 200 with at least one item,
\* whatever the persisted selection, one past the last batch included
C36_LiveImagesAreShown ==
    (resp.op = "slots" /\ ValidSlotConfig /\ LiveImages # <<>>) =>
        /\ resp.status = 200
        /\ Len(resp.body.array) >= 1

\* a layout with items, sent after a delete while the persisted selection
\* lies past the last batch
C36_Witness ==
    /\ resp.op = "slots" /\ resp.status = 200
    /\ ValidSlotConfig
    /\ IsSome(selection)
    /\ selection[1] >= CeilDiv(Len(LiveImages), SLOT_COUNT)
    /\ trash # <<>>
    /\ Len(resp.body.array) >= 1

----------------------------------------------------------------------------
(* Deletes and restores one after another, from an empty manifest *)

InitTrash ==
    /\ pin = <<>>
    /\ pres = NoCall
    /\ uploadDirMade = TRUE
    /\ disk = SmallDisk
    /\ readdirRev = FALSE
    /\ slotFile = [exists |-> TRUE, slots |-> GridSlots]
    /\ trash = <<>>
    /\ selection = None
    /\ sessions = <<>>
    /\ nextToken = 1
    /\ nextTrashId = 1
    /\ now = StartTime
    /\ resp = NoResp
    /\ beforeDelete = None
    /\ request = NoRequest
    /\ PagesLoaded

NextTrash ==
    \/ \E b \in PlainLoginBodies : PostLogin(b)
    \/ \E c \in Cookies : Delete(c)
    \/ \E c \in Cookies : PostRestore(c)
    \/ \E c \in Cookies : GetList(c)
    \/ \E c \in Cookies : GetTrash(c)

SpecTrash == InitTrash /\ [][NextTrash]_vars

\* C37: whatever deletes and restores were served one after another, no two
\* entries of the manifest have the same path, and after a restore answered
\* 200 the image of the entry is listed by GET /api/list
C37_OneEntryPerPath ==
    /\ \A i, j \in 1..Len(trash) : i # j => trash[i].path # trash[j].path
    /\ (resp.op = "restore" /\ resp.status = 200) =>
          \E k \in 1..Len(listImages) : listImages[k].path = resp.body.path

\* a restore has been answered 200 while another image is still in the
\* manifest, after deletes that made two entries
C37_Witness ==
    /\ resp.op = "restore" /\ resp.status = 200
    /\ Len(trash) = 1
    /\ nextTrashId = 3
    /\ trash[1].path # resp.body.path

----------------------------------------------------------------------------
(* The display page: luux.js polls /api/list, the slot page /api/slots *)

\* items in one polled array
MaxItems == 2

\* the display page just loaded: which script it runs ("list": luux.js,
\* "slots": the script with applyLayout), the children of #luuxOverlay, the
\* Map itemEls from filename to element, and what the last poll brought
LoadedOverlay(page) == [page |-> page, children |-> <<>>, itemEls |-> <<>>, polled |-> <<>>]

\* an item of a polled array; x stands for x, y, w and h
OverlayItem(filename, url, x) == [filename |-> filename, url |-> url, x |-> x]

\* the items polled: a.png of the upload root, at two places of the layout,
\* a.png of batch-0001, and b.png
ItemPool ==
    {OverlayItem(<<"a", ".", "png">>, UrlOf(<<"a", ".", "png">>), 0),
     OverlayItem(<<"a", ".", "png">>, UrlOf(<<"a", ".", "png">>), 10),
     OverlayItem(<<"a", ".", "png">>, UrlOf(<<"batch-", "0001", "/", "a", ".", "png">>), 20),
     OverlayItem(<<"b", ".", "png">>, UrlOf(<<"b", ".", "png">>), 30)}

\* what res.json() yields: an array of items with different urls, or a value
\* that is no array
Polls ==
    {[array |-> FALSE, items |-> <<>>]}
        \cup {[array |-> TRUE, items |-> its] :
                 its \in {q \in UNION {[1..n -> ItemPool] : n \in 0..MaxItems} :
                             \A i, j \in 1..Len(q) : i # j => q[i].url # q[j].url}}

\* document.createElement("img") with src, alt and, on the slot page, the
\* layout; el is the element's identity
ImgOf(el, item, page) ==
    [el |-> el, src |-> item.url, alt |-> item.filename,
     left |-> IF page = "slots" THEN Some(item.x) ELSE None]

\* an identity no child has
FreshEl(children) ==
    CHOOSE e \in 1..(Len(children) + 1) : \A k \in 1..Len(children) : children[k].el # e

\* itemEls.set(filename, el)
MapSet(map, filename, el) ==
    [f \in (DOMAIN map) \cup {filename} |-> IF f = filename THEN el ELSE map[f]]

\* the removals of syncOverlay: every filename of the Map that is not in next
RemoveMissing(o, next) ==
    LET gone == {f \in DOMAIN o.itemEls : f \notin next}
    IN  [o EXCEPT !.children = SelectSeq(o.children,
                                         LAMBDA c : \A f \in gone : o.itemEls[f] # c.el),
                  !.itemEls = [f \in (DOMAIN o.itemEls) \ gone |-> o.itemEls[f]]]

\* items.forEach of syncOverlay: luux.js appends the items whose filename the
\* Map lacks; the slot page also applies the layout to the element it has
RECURSIVE ForEachItem(_, _)
ForEachItem(o, items) ==
    IF items = <<>> THEN o
    ELSE LET item == Head(items)
             has == item.filename \in DOMAIN o.itemEls
             el == FreshEl(o.children)
         IN  ForEachItem(
                 IF has /\ o.page = "slots"
                 THEN [o EXCEPT !.children =
                          [k \in 1..Len(o.children) |->
                              IF o.children[k].el = o.itemEls[item.filename]
                              THEN [o.children[k] EXCEPT !.left = Some(item.x)]
                              ELSE o.children[k]]]
                 ELSE IF has THEN o
                 ELSE [o EXCEPT !.children = Append(o.children, ImgOf(el, item, o.page)),
                                !.itemEls = MapSet(o.itemEls, item.filename, el)],
                 Tail(items))

\* syncOverlay(items)
syncOverlay(o, poll) ==
    IF ~poll.array \/ poll.items = <<>>
    THEN [o EXCEPT !.children = <<>>, !.itemEls = <<>>, !.polled = poll.items]
    ELSE [ForEachItem(RemoveMissing(o, {poll.items[i].filename : i \in 1..Len(poll.items)}),
                      poll.items)
             EXCEPT !.polled = poll.items]

\* loadLuux of luux.js after its fetch of /api/list succeeded
PollList(poll) ==
    /\ overlay.page = "list"
    /\ overlay' = syncOverlay(overlay, poll)
    /\ UNCHANGED <<tasks, painter, stickers, pin, pres, serverVars>>

\* loadLuux of the slot page after its fetch of /api/slots succeeded
PollSlots(poll) ==
    /\ overlay.page = "slots"
    /\ overlay' = syncOverlay(overlay, poll)
    /\ UNCHANGED <<tasks, painter, stickers, pin, pres, serverVars>>

InitOverlay ==
    /\ pin = <<>>
    /\ pres = NoCall
    /\ uploadDirMade = FALSE
    /\ disk = <<>>
    /\ readdirRev = FALSE
    /\ slotFile = [exists |-> FALSE, slots |-> <<>>]
    /\ trash = <<>>
    /\ selection = None
    /\ sessions = <<>>
    /\ nextToken = 1
    /\ nextTrashId = 1
    /\ now = StartTime
    /\ resp = NoResp
    /\ beforeDelete = None
    /\ request = NoRequest
    /\ tasks = <<>>
    /\ overlay \in {LoadedOverlay("list"), LoadedOverlay("slots")}
    /\ painter = [canvas |-> <<>>, history |-> << <<>> >>, isDrawing |-> FALSE,
                  hasStroke |-> FALSE, loads |-> <<>>, drawn |-> 0]
    /\ stickers = [map |-> <<>>, activeStickerId |-> <<>>, dragState |-> <<>>,
                   longPressInfo |-> <<>>, longPressTimer |-> <<>>, nextId |-> 1, down |-> {}]

NextOverlay ==
    \/ \E poll \in Polls : PollList(poll)
    \/ \E poll \in Polls : PollSlots(poll)

SpecOverlay == InitOverlay /\ [][NextOverlay]_vars

\* C38: after every syncOverlay(items) the overlay holds exactly one image
\* element for each item of items, items of one filename and different paths
\* included, and no other element; after an empty or non-array items the
\* overlay holds no element and the Map is empty
C38_OneElementPerItem ==
    /\ \A i \in 1..Len(overlay.polled) :
          Cardinality({k \in 1..Len(overlay.children) :
                          overlay.children[k].src = overlay.polled[i].url}) = 1
    /\ \A k \in 1..Len(overlay.children) :
          \E i \in 1..Len(overlay.polled) : overlay.children[k].src = overlay.polled[i].url
    /\ overlay.polled = <<>> => (overlay.children = <<>> /\ DOMAIN overlay.itemEls = {})

----------------------------------------------------------------------------
(* The painter: strokes, snapshots, undo, and the image loads of a restore *)

\* pointer moves that draw, in one run
MaxSegments == 3

MAX_HISTORY == 20

\* the painter as createPainter leaves it: the canvas (the segments drawn on
\* it, in order), the history of snapshots with the snapshot of the blank
\* canvas, the two flags, the images of restoreSnapshot whose load has not
\* fired yet (each the snapshot it was given), and the segments drawn so far
LoadedPainter ==
    [canvas |-> <<>>, history |-> << <<>> >>, isDrawing |-> FALSE, hasStroke |-> FALSE,
     loads |-> <<>>, drawn |-> 0]

\* saveSnapshot: the history with the canvas pushed, cut to MAX_HISTORY
saveSnapshot(p) ==
    LET pushed == Append(p.history, p.canvas)
    IN  [p EXCEPT !.history =
            IF Len(pushed) > MAX_HISTORY
            THEN SubSeq(pushed, Len(pushed) - MAX_HISTORY + 1, Len(pushed))
            ELSE pushed]

\* restoreSnapshot: an Image is given the last snapshot; its onload comes later
restoreSnapshot(p) ==
    IF Len(p.history) = 0 THEN p
    ELSE [p EXCEPT !.loads = Append(p.loads, p.history[Len(p.history)])]

\* pointerdown on the canvas, of the one pointer that draws
startDrawing ==
    /\ ~painter.isDrawing
    /\ painter' = [painter EXCEPT !.isDrawing = TRUE, !.hasStroke = FALSE]
    /\ UNCHANGED <<tasks, overlay, stickers, pin, pres, serverVars>>

\* pointermove on the canvas
drawing ==
    /\ painter.isDrawing
    /\ painter.drawn < MaxSegments
    /\ painter' = [painter EXCEPT !.hasStroke = TRUE,
                                  !.canvas = Append(painter.canvas, painter.drawn + 1),
                                  !.drawn = painter.drawn + 1]
    /\ UNCHANGED <<tasks, overlay, stickers, pin, pres, serverVars>>

\* pointerup, pointerleave or pointercancel
stopDrawing ==
    /\ painter.isDrawing
    /\ painter' = LET stopped == [painter EXCEPT !.isDrawing = FALSE]
                  IN  IF painter.hasStroke THEN saveSnapshot(stopped) ELSE stopped
    /\ UNCHANGED <<tasks, overlay, stickers, pin, pres, serverVars>>

\* a click on the undo button
undo ==
    /\ Len(painter.history) > 1
    /\ painter' = restoreSnapshot([painter EXCEPT
                      !.history = SubSeq(painter.history, 1, Len(painter.history) - 1)])
    /\ UNCHANGED <<tasks, overlay, stickers, pin, pres, serverVars>>

\* img.onload of the k-th image still loading: clearRect, drawImage
ImageLoaded(k) ==
    /\ k \in 1..Len(painter.loads)
    /\ painter' = [painter EXCEPT
                      !.canvas = painter.loads[k],
                      !.loads = SubSeq(painter.loads, 1, k - 1)
                                   \o SubSeq(painter.loads, k + 1, Len(painter.loads))]
    /\ UNCHANGED <<tasks, overlay, stickers, pin, pres, serverVars>>

InitPainter ==
    /\ pin = <<>>
    /\ pres = NoCall
    /\ uploadDirMade = FALSE
    /\ disk = <<>>
    /\ readdirRev = FALSE
    /\ slotFile = [exists |-> FALSE, slots |-> <<>>]
    /\ trash = <<>>
    /\ selection = None
    /\ sessions = <<>>
    /\ nextToken = 1
    /\ nextTrashId = 1
    /\ now = StartTime
    /\ resp = NoResp
    /\ beforeDelete = None
    /\ request = NoRequest
    /\ PagesLoaded

NextPainter ==
    \/ startDrawing
    \/ drawing
    \/ stopDrawing
    \/ undo
    \/ \E k \in 1..MaxSegments : ImageLoaded(k)

SpecPainter == InitPainter /\ [][NextPainter]_vars

\* C39: once every image of a restore has loaded and no stroke is under way,
\* the canvas shows the snapshot at the top of the history, whatever the
\* order of undo clicks, strokes and image loads was
C39_CanvasIsTopOfHistory ==
    (painter.loads = <<>> /\ ~painter.isDrawing) =>
        painter.canvas = painter.history[Len(painter.history)]

----------------------------------------------------------------------------
(* The sticker manager: selection, drag, long press and deletion *)

\* stickers added in one run
MaxStickers == 2

\* the pointers (fingers) on the page
Pointers == {1, 2}

\* the manager as createStickerManager leaves it: the Map of stickers (for
\* each id whether its element carries the class "selected"),
\* activeStickerId, dragState as [type, id], longPressInfo as [id, pointerId],
\* the sticker of the armed long-press timer, the next id, and the pointers
\* that are down.  Positions and sizes of stickers are left out.
LoadedStickers ==
    [map |-> <<>>, activeStickerId |-> None, dragState |-> None, longPressInfo |-> None,
     longPressTimer |-> None, nextId |-> 1, down |-> {}]

\* clearSelection
clearSelection(m) ==
    [m EXCEPT !.activeStickerId = None,
              !.map = [id \in DOMAIN m.map |-> [selected |-> FALSE]]]

\* selectSticker(id): the stickers of the Map are marked, id being in it or not
selectSticker(m, id) ==
    [m EXCEPT !.activeStickerId = Some(id),
              !.map = [sid \in DOMAIN m.map |-> [selected |-> (sid = id)]]]

\* startDrag / startResize
startDrag(m, type, id) == [m EXCEPT !.dragState = Some([type |-> type, id |-> id])]

\* clearLongPress
clearLongPress(m) == [m EXCEPT !.longPressInfo = None, !.longPressTimer = None]

\* startLongPress
startLongPress(m, p, id) ==
    [clearLongPress(m) EXCEPT !.longPressInfo = Some([id |-> id, pointerId |-> p]),
                              !.longPressTimer = Some(id)]

\* handlePointerUp
handlePointerUp(m, p) ==
    LET cleared == IF IsSome(m.longPressInfo) /\ m.longPressInfo[1].pointerId = p
                   THEN clearLongPress(m) ELSE m
    IN  [cleared EXCEPT !.dragState = None]

\* a tap of pointer p on a sticker button of the tool bar: the pointerdown
\* outside every sticker reaches the document's handler, the pointerup the
\* window's, and the click calls addSticker
AddSticker(p) ==
    /\ p \notin stickers.down
    /\ stickers.nextId <= MaxStickers
    /\ LET up == handlePointerUp(clearSelection(stickers), p)
           id == stickers.nextId
           added == [up EXCEPT !.map = [sid \in (DOMAIN up.map) \cup {id} |->
                                          IF sid = id THEN [selected |-> FALSE] ELSE up.map[sid]],
                               !.nextId = id + 1]
       IN  stickers' = selectSticker(added, id)
    /\ UNCHANGED <<tasks, overlay, painter, pin, pres, serverVars>>

\* a tap of pointer p on the delete button of a sticker: the pointerdown is
\* ignored by the wrapper's handler, the pointerup reaches the window's
\* handler, and the click deletes the sticker
DeleteSticker(p, id) ==
    /\ p \notin stickers.down
    /\ id \in DOMAIN stickers.map
    /\ LET up == handlePointerUp(stickers, p)
       IN  stickers' = [up EXCEPT
               !.map = [sid \in (DOMAIN up.map) \ {id} |-> up.map[sid]],
               !.activeStickerId = IF up.activeStickerId = Some(id) THEN None
                                   ELSE up.activeStickerId]
    /\ UNCHANGED <<tasks, overlay, painter, pin, pres, serverVars>>

\* pointerdown of p outside every sticker
PointerDownOutside(p) ==
    /\ p \notin stickers.down
    /\ stickers' = [clearSelection(stickers) EXCEPT !.down = stickers.down \cup {p}]
    /\ UNCHANGED <<tasks, overlay, painter, pin, pres, serverVars>>

\* pointerdown of p on the picture of a sticker
WrapperPointerDown(p, id) ==
    /\ p \notin stickers.down
    /\ id \in DOMAIN stickers.map
    /\ stickers' = [(IF stickers.activeStickerId = Some(id)
                     THEN startDrag(stickers, "drag", id)
                     ELSE startLongPress(stickers, p, id))
                       EXCEPT !.down = stickers.down \cup {p}]
    /\ UNCHANGED <<tasks, overlay, painter, pin, pres, serverVars>>

\* pointerdown of p on the resize handle of a sticker
HandlePointerDown(p, id) ==
    /\ p \notin stickers.down
    /\ id \in DOMAIN stickers.map
    /\ stickers' = [startDrag(selectSticker(stickers, id), "resize", id)
                       EXCEPT !.down = stickers.down \cup {p}]
    /\ UNCHANGED <<tasks, overlay, painter, pin, pres, serverVars>>

\* pointermove of p, by more than 6 px from where it went down or by less
PointerMove(p, far) ==
    /\ p \in stickers.down
    /\ stickers' = IF IsSome(stickers.longPressInfo)
                      /\ stickers.longPressInfo[1].pointerId = p /\ far
                   THEN clearLongPress(stickers) ELSE stickers
    /\ stickers' # stickers
    /\ UNCHANGED <<tasks, overlay, painter, pin, pres, serverVars>>

\* pointerup or pointercancel of p
PointerUp(p) ==
    /\ p \in stickers.down
    /\ stickers' = [handlePointerUp(stickers, p) EXCEPT !.down = stickers.down \ {p}]
    /\ UNCHANGED <<tasks, overlay, painter, pin, pres, serverVars>>

\* the long-press timer fires: the callback works on the sticker it was
\* armed for; setPointerCapture throws on an element that has been removed,
\* and then clearLongPress is not reached
LongPressFires ==
    /\ IsSome(stickers.longPressTimer)
    /\ LET id == stickers.longPressTimer[1]
           fired == [stickers EXCEPT !.longPressTimer = None]
       IN  stickers' =
              IF ~IsSome(stickers.longPressInfo) \/ stickers.longPressInfo[1].id # id
              THEN fired
              ELSE IF id \in DOMAIN stickers.map
              THEN clearLongPress(startDrag(selectSticker(fired, id), "drag", id))
              ELSE startDrag(selectSticker(fired, id), "drag", id)
    /\ UNCHANGED <<tasks, overlay, painter, pin, pres, serverVars>>

InitStickers ==
    /\ pin = <<>>
    /\ pres = NoCall
    /\ uploadDirMade = FALSE
    /\ disk = <<>>
    /\ readdirRev = FALSE
    /\ slotFile = [exists |-> FALSE, slots |-> <<>>]
    /\ trash = <<>>
    /\ selection = None
    /\ sessions = <<>>
    /\ nextToken = 1
    /\ nextTrashId = 1
    /\ now = StartTime
    /\ resp = NoResp
    /\ beforeDelete = None
    /\ request = NoRequest
    /\ PagesLoaded

NextStickers ==
    \/ \E p \in Pointers : AddSticker(p)
    \/ \E p \in Pointers, id \in 1..MaxStickers : DeleteSticker(p, id)
    \/ \E p \in Pointers : PointerDownOutside(p)
    \/ \E p \in Pointers, id \in 1..MaxStickers : WrapperPointerDown(p, id)
    \/ \E p \in Pointers, id \in 1..MaxStickers : HandlePointerDown(p, id)
    \/ \E p \in Pointers, far \in BOOLEAN : PointerMove(p, far)
    \/ \E p \in Pointers : PointerUp(p)
    \/ LongPressFires

SpecStickers == InitStickers /\ [][NextStickers]_vars

\* C40: at every moment at most one sticker carries the selected mark, and
\* activeStickerId and dragState.id are each null or the id of a sticker that
\* is in the Map, whatever pointers, long-press timer and deletions did
C40_SelectionNamesLiveSticker ==
    /\ Cardinality({id \in DOMAIN stickers.map : stickers.map[id].selected}) <= 1
    /\ IsSome(stickers.activeStickerId) => stickers.activeStickerId[1] \in DOMAIN stickers.map
    /\ IsSome(stickers.dragState) => stickers.dragState[1].id \in DOMAIN stickers.map

====
